---- MODULE Spec2Model ----
(***************************************************************************)
(* Verification model of acrodrig/dbx: the condition compiler              *)
(* (Repository._where), the parameter binder (DB._transformParameters and  *)
(* DB._transformPlaceholders), the DDL compiler (DDL.createTable), the     *)
(* schema freshness tracker (Schemas.outdated, Schemas.ensure), the        *)
(* statements and events of the Repository methods, the connection and     *)
(* the repository cache of DB (DB.connect, DB.getRepository) and the id    *)
(* counter of the key-value repository (KV.insert).                        *)
(*                                                                         *)
(* The text of a WHERE clause or of a statement with parameters is a       *)
(* sequence of tokens (strings) with white space implied between them; the *)
(* text of DDL.createTable is a sequence of fragments whose concatenation  *)
(* is the text, white space included.  JavaScript primitive values are     *)
(* written as strings: "1", "X", "now", "" (the empty string), "0" (zero), *)
(* "null" (null) and "undefined".                                          *)
(***************************************************************************)

EXTENDS Integers, Sequences, FiniteSets, TLC

VARIABLES
    DBtype,           \* DB.type, the process-wide dialect
    where,            \* argument `where` of Repository._where
    fullTextColumns,  \* argument `fullTextColumns` of Repository._where
    tree,             \* argument `tree` of Repository._where (in/out array)
    whereSql,         \* value returned by Repository._where
    wpc,              \* "idle" before the call, "done" after it
    sql,              \* argument `sql` of DB._transformParameters (the template)
    objectParameters, \* argument `objectParameters` of DB._transformParameters
    arrayParameters,  \* argument `arrayParameters` of DB._transformParameters (in/out array)
    safe,             \* argument `safe` of DB._transformParameters
    bindSql,          \* value returned by the last DB._transformParameters call
    bindErr,          \* TRUE iff the last DB._transformParameters call threw
    bindCalls,        \* number of DB._transformParameters calls made so far
    ddlSchema,        \* argument `schema` of DDL.createTable
    ddlType,          \* argument `dbType` of DDL.createTable
    ddlName,          \* argument `nameOverride` of DDL.createTable
    ddlSql,           \* value returned by DDL.createTable
    ddlErr,           \* TRUE iff DDL.createTable threw
    dpc,              \* "idle" before the call, "done" after it
    clock,            \* the current time, in ticks
    fileText,         \* the text of the source file
    fileMtime,        \* the modification time of the source file, in ticks
    schemaId,         \* schema.$id: whether it is set, and the date in its hash
    schemaEtag,       \* schema.etag
    modifiedSince,    \* TRUE iff the source was rewritten after the last Schemas.generate
    answer,           \* what Schemas.outdated answered, if it was the last event
    ensured,          \* what the last Schemas.ensure call found, did and returned
    placeSql,         \* argument `sql` of DB._transformPlaceholders
    placeOut,         \* value returned by DB._transformPlaceholders
    ppc,              \* "idle" before the call, "done" after it
    baseWhere,        \* this.baseWhere of the repository
    called,           \* the method of the repository that was called last
    callWhere,        \* the condition the caller passed to that call, if any
    statements,       \* the statements that call handed to the database
    trace,            \* the events that call dispatched and its database calls, in order
    thrown,           \* TRUE iff that call threw or was rejected
    DBclient,         \* DB.client
    DBschemas,        \* DB.#schemas, by name
    DBrepositories,   \* DB.#repositories, by key
    connects,         \* the calls of DB.connect: position, config.type, ensure, client returned
    nativeClients,    \* number of native clients connect(config) has created
    instances,        \* number of Repository instances DB.getRepository has made
    handed,           \* the repositories DB.getRepository returned, with their targets
    overlapped,       \* TRUE iff a DB.connect call began while another awaited its connection
    kvAuto,           \* the entry of the key [type.name + "$auto"] in the KV store
    kvEntries,        \* the id stored under the key of each title in the KV store, 0 for none
    inserts           \* the calls of KV.insert: position, object, entry read by #auto, commit result

whereVars == <<DBtype, where, fullTextColumns, tree, whereSql, wpc>>
bindVars == <<sql, objectParameters, arrayParameters, safe, bindSql, bindErr, bindCalls>>
ddlVars == <<ddlSchema, ddlType, ddlName, ddlSql, ddlErr, dpc>>
freshVars == <<clock, fileText, fileMtime, schemaId, schemaEtag, modifiedSince, answer, ensured>>
placeVars == <<placeSql, placeOut, ppc>>
repoVars == <<baseWhere, called, callWhere, statements, trace, thrown>>
dbVars == <<DBclient, DBschemas, DBrepositories, connects, nativeClients, instances, handed, overlapped>>
kvVars == <<kvAuto, kvEntries, inserts>>

-----------------------------------------------------------------------------
(* Bounds of the model *)

MaxKeys == 2      \* keys of one condition object
MaxKids == 2      \* children of one and/or node
MaxTokens == 3    \* tokens of one SQL template
MaxCalls == 2     \* successive DB._transformParameters calls on one array
MaxColumns == 2   \* columns of a table that varies in its structure
MaxRelations == 1 \* relations of one schema
MaxConstraints == 1  \* independent constraints of one schema
MaxTime == 3      \* ticks of the clock
MaxPieces == 3    \* pieces of one statement with positional marks
TicksPerSecond == 2  \* ticks of the file system's timestamp in one second

-----------------------------------------------------------------------------
(* Generic helpers *)

SeqsUpTo(S, n) == UNION {[1..k -> S] : k \in 0..n}

RECURSIVE Flatten(_)
Flatten(ss) == IF ss = <<>> THEN <<>> ELSE Head(ss) \o Flatten(Tail(ss))

\* Array.prototype.join on rendered fragments: the separator token between
\* consecutive fragments
RECURSIVE JoinTok(_, _)
JoinTok(ss, sep) ==
    IF ss = <<>> THEN <<>>
    ELSE IF Len(ss) = 1 THEN Head(ss)
    ELSE Head(ss) \o <<sep>> \o JoinTok(Tail(ss), sep)

-----------------------------------------------------------------------------
(* Repository._where *)

Provider == [MYSQL |-> "mysql", POSTGRES |-> "postgres", SQLITE |-> "sqlite"]
Providers == {Provider.MYSQL, Provider.POSTGRES, Provider.SQLITE}

CQ == ""

OperatorKeys == {"eq", "neq", "gt", "gte", "lt", "lte", "in", "contains", "nin", "match"}

operators == [eq |-> "=", neq |-> "!=", gt |-> ">", gte |-> ">=", lt |-> "<",
              lte |-> "<=", in |-> "IN", contains |-> "MEMBER OF",
              nin |-> "NOT IN", match |-> "MATCH"]

\* JavaScript truthiness of a primitive
Truthy(v) == v \notin {"", "0", "null", "undefined", "false"}

\* join(label, count, separator = ",")
join(label, count) == JoinTok([i \in 1..count |-> <<label>>], ",")

\* Values of a condition object.  kind "prim": a primitive v; kind "pred": a
\* predicate object whose own keys, in insertion order, are ops[i].key with
\* value ops[i].v (a primitive) or ops[i].arr (an array, when ops[i].isArr);
\* kind "list": an array of conditions (the value of an and/or key).
Prim(v) == [kind |-> "prim", v |-> v, ops |-> <<>>, kids |-> <<>>]
Op(k, v) == [key |-> k, isArr |-> FALSE, v |-> v, arr |-> <<>>]
OpArr(k, a) == [key |-> k, isArr |-> TRUE, v |-> "", arr |-> a]
Pred(ops) == [kind |-> "pred", v |-> "", ops |-> ops, kids |-> <<>>]
List(kids) == [kind |-> "list", v |-> "", ops |-> <<>>, kids |-> kids]
Entry(n, val) == [name |-> n, value |-> val]

\* String(x) of the value of an operator key (an array prints its elements
\* joined by ",")
RECURSIVE StrJoin(_)
StrJoin(a) == IF a = <<>> THEN ""
              ELSE IF Len(a) = 1 THEN a[1]
              ELSE a[1] \o "," \o StrJoin(Tail(a))
Str(o) == IF o.isArr THEN StrJoin(o.arr) ELSE o.v

\* wrapper(columns, s = ",", w = false) with the defaults the code uses
wrapper(columns) == JoinTok([i \in 1..Len(columns) |-> <<columns[i]>>], ",")

\* The expressions and arguments appended by the full-text branch (lines
\* 281-292); last is the last own key of the predicate object.
MatchStep(column, last, ftc, dbType) ==
    IF ~ (last.isArr \/ Truthy(last.v))
    THEN \* continue
         [exprs |-> <<>>, args |-> <<>>]
    ELSE [args |-> << IF Len(ftc) > 0
                       THEN Str(last) \o (IF dbType = Provider.POSTGRES THEN "" ELSE "*")
                       ELSE "%" \o Str(last) \o "%" >>,
          exprs |->
            IF Len(ftc) > 0
            THEN (IF dbType = Provider.MYSQL
                  THEN << <<"MATCH", "(">> \o wrapper(ftc) \o <<")", "AGAINST", "(", "?", "IN BOOLEAN MODE", ")">> >>
                  ELSE <<>>)
                 \o
                 (IF dbType = Provider.POSTGRES
                  THEN << <<"TO_TSVECTOR", "(", "'english'", ",">> \o wrapper(ftc) \o <<")", "@@", "TO_TSQUERY", "(", "?", ")">> >>
                  ELSE <<>>)
            ELSE << <<column, "LIKE", "?">> >>]

\* NormalStep without the special case for null (eq/neq keep = and !=)
NormalStep_NoNullCase(column, key, op, last, dbType) ==
    LET explode == op = operators["in"] \/ op = operators.nin
    IN [args |-> IF explode THEN last.arr
                 ELSE IF last.isArr THEN <<"[" \o Str(last) \o "]">>
                 ELSE <<last.v>>,
        exprs |->
          IF key = "contains"
          THEN (IF dbType = Provider.MYSQL
                THEN << <<"?", op, "(", column, ")">> >> ELSE <<>>)
               \o
               (IF dbType = Provider.POSTGRES
                THEN << <<"JSONB_EXISTS", "(", "CAST", "(", column, "AS", "JSONB", ")", ",", "?", ")">> >>
                ELSE <<>>)
               \o
               (IF dbType = Provider.SQLITE
                THEN << <<column, "LIKE", "?">> >> ELSE <<>>)
          ELSE << <<column, op>> \o
                  (IF explode
                   THEN <<"(">> \o join("?", Len(last.arr)) \o <<")">>
                   ELSE <<"?">>) >>]

\* The "normal case" (lines 296-313): a recognised operator other than match.
\* in/nin carry an array (types.ts:81-82).
NormalStep(column, key, op, last, dbType) ==
    LET explode == op = operators["in"] \/ op = operators.nin
        isNull == ~ last.isArr /\ last.v = "null"
        op2 == IF isNull /\ key = "eq" THEN "IS"
               ELSE IF isNull /\ key = "neq" THEN "IS NOT"
               ELSE op
    IN [args |-> IF explode THEN last.arr
                 ELSE IF last.isArr THEN <<"[" \o Str(last) \o "]">>
                 ELSE <<last.v>>,
        exprs |->
          IF key = "contains"
          THEN (IF dbType = Provider.MYSQL
                THEN << <<"?", op2, "(", column, ")">> >> ELSE <<>>)
               \o
               (IF dbType = Provider.POSTGRES
                THEN << <<"JSONB_EXISTS", "(", "CAST", "(", column, "AS", "JSONB", ")", ",", "?", ")">> >>
                ELSE <<>>)
               \o
               (IF dbType = Provider.SQLITE
                THEN << <<column, "LIKE", "?">> >> ELSE <<>>)
          ELSE << <<column, op2>> \o
                  (IF explode
                   THEN <<"(">> \o join("?", Len(last.arr)) \o <<")">>
                   ELSE <<"?">>) >>]

\* ShorthandStep that renders the conjunct but forgets tree.push(value)
ShorthandStep_NoPush(column, value) ==
    [args |-> <<>>,
     exprs |-> << <<column, IF value.kind = "prim" /\ value.v = "null" THEN "IS" ELSE "=", "?">> >>]

\* The final else (lines 314-317): a value without a recognised operator key
ShorthandStep(column, value) ==
    [args |-> <<IF value.kind = "prim" THEN value.v ELSE "[object]">>,
     exprs |-> << <<column, IF value.kind = "prim" /\ value.v = "null" THEN "IS" ELSE "=", "?">> >>]

\* PredicateStep that takes the first own key of the predicate object
PredicateStep_FirstKey(name, value, ftc, dbType) ==
    LET keys == IF value.kind = "pred" THEN value.ops ELSE <<>>
        hasKey == keys # <<>>
        last == keys[1]
        key == IF hasKey THEN last.key ELSE "undefined"
        column == CQ \o name \o CQ
        hasOp == hasKey /\ key \in OperatorKeys
        op == IF hasOp THEN operators[key] ELSE "undefined"
    IN  IF hasOp /\ op = operators.match
        THEN MatchStep(column, last, ftc, dbType)
        ELSE IF column = "$sql"
        THEN [exprs |-> << <<value.v>> >>, args |-> <<>>]
        ELSE IF hasOp
        THEN NormalStep(column, key, op, last, dbType)
        ELSE ShorthandStep(column, value)

\* One predicate entry [name, value] of the loop body (lines 276-317): the
\* expressions and arguments it appends.
PredicateStep(name, value, ftc, dbType) ==
    LET keys == IF value.kind = "pred" THEN value.ops ELSE <<>>
        hasKey == keys # <<>>
        last == keys[Len(keys)]
        key == IF hasKey THEN last.key ELSE "undefined"
        column == CQ \o name \o CQ
        hasOp == hasKey /\ key \in OperatorKeys
        op == IF hasOp THEN operators[key] ELSE "undefined"
    IN  IF hasOp /\ op = operators.match
        THEN MatchStep(column, last, ftc, dbType)
        ELSE IF column = "$sql"
        THEN [exprs |-> << <<value.v>> >>, args |-> <<>>]
        ELSE IF hasOp
        THEN NormalStep(column, key, op, last, dbType)
        ELSE ShorthandStep(column, value)

\* expressions.join(" AND ") || "TRUE"
JoinOrTrue(expressions) ==
    LET s == JoinTok(expressions, "AND")
    IN IF s = <<>> THEN <<"TRUE">> ELSE s

RECURSIVE _where(_, _, _, _)
RECURSIVE WhereKids(_, _, _, _, _)
RECURSIVE WhereLoop(_, _, _, _, _, _)

\* for (const w of value) ses.push(Repository._where(w, st, fullTextColumns))
WhereKids(kidsLeft, st, ses, ftc, dbType) ==
    IF kidsLeft = <<>> THEN [st |-> st, ses |-> ses]
    ELSE LET r == _where(Head(kidsLeft), st, ftc, dbType)
         IN WhereKids(Tail(kidsLeft), r.tree, Append(ses, r.sql), ftc, dbType)

\* for (const [name, value] of entries) { ... } from entry i on
WhereLoop(entries, i, expressions, tr, ftc, dbType) ==
    IF i > Len(entries) THEN [sql |-> JoinOrTrue(expressions), tree |-> tr]
    ELSE LET name == entries[i].name
             value == entries[i].value
         IN IF name = "and" \/ name = "or"
            THEN LET k == WhereKids(value.kids, <<>>, <<>>, ftc, dbType)
                     e == <<"(">> \o JoinTok(k.ses, IF name = "and" THEN "AND" ELSE "OR") \o <<")">>
                 IN \* break
                    [sql |-> JoinOrTrue(Append(expressions, e)), tree |-> tr \o k.st]
            ELSE LET p == PredicateStep(name, value, ftc, dbType)
                 IN WhereLoop(entries, i + 1, expressions \o p.exprs, tr \o p.args, ftc, dbType)

\* static _where(where?, tree = [], fullTextColumns = []): the returned SQL
\* and the content of `tree` after the call.  w.undef: the argument is
\* undefined (where ?? {}).
_where(w, tr, ftc, dbType) ==
    WhereLoop(IF w.undef THEN <<>> ELSE w.entries, 1, <<>>, tr, ftc, dbType)

-----------------------------------------------------------------------------
(* Inputs of Repository._where *)

Cond(entries) == [undef |-> FALSE, entries |-> entries]
Undefined == [undef |-> TRUE, entries |-> <<>>]

\* values of column a
AValues ==
    {Prim(v) : v \in {"1", "null", ""}}
    \cup {Pred(<<Op(k, "1")>>) : k \in {"eq", "neq", "gt", "gte", "lt", "lte"}}
    \cup {Pred(<<Op(k, "null")>>) : k \in {"eq", "neq"}}
    \cup {Pred(<<OpArr("in", <<"1", "X">>)>>), Pred(<<OpArr("nin", <<>>)>>)}
    \cup {Pred(<<Op("contains", "X")>>)}
    \cup {Pred(<<Op("match", v)>>) : v \in {"X", ""}}
    \cup {Pred(<<Op("gt", "1"), Op("lt", "2")>>),
          Pred(<<Op("eq", "1"), Op("match", "X")>>),
          Pred(<<Op("match", "X"), Op("eq", "null")>>),
          Pred(<<Op("gt", "1"), Op("match", "")>>),
          Pred(<<Op("eq", "1"), OpArr("in", <<"1", "X">>)>>)}

\* values of column b
BValues == {Prim("2"), Prim("null"), Pred(<<Op("lte", "now")>>)}

\* children of an and/or node
KidConds == {Cond(<<>>),
             Cond(<<Entry("x", Prim("X"))>>),
             Cond(<<Entry("d", Pred(<<Op("lte", "now")>>))>>)}

\* keys that are not and/or: the columns a and b and the raw escape $sql
ColumnEntries ==
    {Entry("a", v) : v \in AValues}
    \cup {Entry("b", v) : v \in BValues}
    \cup {Entry("$sql", Prim("c > d"))}

\* and/or keys
ClauseEntries ==
    {Entry(n, List(k)) : n \in {"and", "or"}, k \in SeqsUpTo(KidConds, MaxKids)}

DistinctNames(es) == \A i, j \in 1..Len(es) : i # j => es[i].name # es[j].name

ColumnSeqs(n) == {s \in SeqsUpTo(ColumnEntries, n) : DistinctNames(s)}

InsertAt(s, p, e) == SubSeq(s, 1, p - 1) \o <<e>> \o SubSeq(s, p, Len(s))

\* The condition objects of the model: up to MaxKeys distinct keys in any
\* insertion order, at most one of them an and/or key (types.ts:95-103), and
\* the undefined argument.
Conds ==
    {Cond(s) : s \in ColumnSeqs(MaxKeys)}
    \cup {Cond(InsertAt(s, IF p > Len(s) + 1 THEN Len(s) + 1 ELSE p, e)) :
             s \in ColumnSeqs(MaxKeys - 1), p \in 1..MaxKeys, e \in ClauseEntries}
    \cup {Undefined}

FullTextColumnSets == {<<>>, <<"t1", "t2">>}

-----------------------------------------------------------------------------
(* DB._transformParameters *)

\* A template is the sequence of the pieces sql.replace() sees: a match of
\* /:[$A-Z_][0-9A-Z_$]*/ig, Param(n) (the text ":n"), or the text between two
\* matches, Lit(t).
Param(n) == [p |-> TRUE, s |-> n]
Lit(t) == [p |-> FALSE, s |-> t]

\* A value of the argument object: kind "absent" (no own property), "undef"
\* (own property holding undefined), "scalar" (v) or "array" (arr).
Absent == [kind |-> "absent", v |-> "", arr |-> <<>>]
Undef == [kind |-> "undef", v |-> "", arr |-> <<>>]
Scalar(v) == [kind |-> "scalar", v |-> v, arr |-> <<>>]
Array(a) == [kind |-> "array", v |-> "", arr |-> a]

\* ReplaceToken that answers a single "?" for an array value
ReplaceToken_OneMark(name, obj, sf) ==
    LET exists == obj[name].kind # "absent"
        value == obj[name]
        isUndefined == value.kind \in {"absent", "undef"}
        isArray == value.kind = "array"
    IN IF ~ exists /\ ~ sf THEN [err |-> TRUE, out |-> <<>>, args |-> <<>>]
       ELSE IF isUndefined /\ ~ sf THEN [err |-> TRUE, out |-> <<>>, args |-> <<>>]
       ELSE [err |-> FALSE,
             args |-> IF isArray THEN value.arr
                      ELSE IF isUndefined THEN <<"undefined">> ELSE <<value.v>>,
             out |-> <<"?">>]

\* The replace callback (lines 87-97) on one match ":name": whether it throws,
\* the replacement text and the values it pushes.
ReplaceToken(name, obj, sf) ==
    LET exists == obj[name].kind # "absent"
        value == obj[name]
        isUndefined == value.kind \in {"absent", "undef"}
        isArray == value.kind = "array"
    IN IF ~ exists /\ ~ sf THEN [err |-> TRUE, out |-> <<>>, args |-> <<>>]
       ELSE IF isUndefined /\ ~ sf THEN [err |-> TRUE, out |-> <<>>, args |-> <<>>]
       ELSE [err |-> FALSE,
             args |-> IF isArray THEN value.arr
                      ELSE IF isUndefined THEN <<"undefined">> ELSE <<value.v>>,
             out |-> IF isArray THEN join("?", Len(value.arr)) ELSE <<"?">>]

\* sql.replace(regex, callback) from piece i on; a throw leaves the array as
\* filled so far and returns nothing
RECURSIVE ReplaceLoop(_, _, _, _, _, _)
ReplaceLoop(tpl, i, out, arr, obj, sf) ==
    IF i > Len(tpl) THEN [err |-> FALSE, sql |-> out, arr |-> arr]
    ELSE IF ~ tpl[i].p THEN ReplaceLoop(tpl, i + 1, Append(out, tpl[i].s), arr, obj, sf)
    ELSE LET r == ReplaceToken(tpl[i].s, obj, sf)
         IN IF r.err THEN [err |-> TRUE, sql |-> <<>>, arr |-> arr]
            ELSE ReplaceLoop(tpl, i + 1, out \o r.out, arr \o r.args, obj, sf)

\* _transformParameters that does not empty the output array first
_transformParameters_NoSplice(tpl, obj, arr, sf) ==
    ReplaceLoop(tpl, 1, <<>>, arr, obj, sf)

\* static _transformParameters(sql, objectParameters, arrayParameters, safe?)
\* arrayParameters.splice(0, arrayParameters.length) empties the array
_transformParameters(tpl, obj, arr, sf) ==
    LET spliced == SubSeq(arr, 1, 0)
    IN ReplaceLoop(tpl, 1, <<>>, spliced, obj, sf)

ParamNames == {"a", "b"}

Pieces == {Lit("x = "), Param("a"), Param("b")}

Templates == SeqsUpTo(Pieces, MaxTokens)

ObjectParameterSets ==
    {[n \in ParamNames |-> IF n = "a" THEN va ELSE vb] :
        va \in {Absent, Undef, Scalar("5"), Array(<<>>), Array(<<"1", "2">>)},
        vb \in {Absent, Scalar("2"), Array(<<"3">>)}}

-----------------------------------------------------------------------------
(* DDL.createTable *)

\* The DDL text is a sequence of fragments whose concatenation is the text;
\* the fragments are the pieces of the template literals of ddl.ts, white
\* space included.  A caller-supplied expression is a sequence of fragments
\* in which every word that DDL.#postgres rewrites is a fragment of its own.

RECURSIVE Concat(_)
Concat(fs) == IF fs = <<>> THEN "" ELSE Head(fs) \o Concat(Tail(fs))

Frag(s) == IF s = "" THEN <<>> ELSE <<s>>

startsWith(s, p) == Len(s) >= Len(p) /\ SubSeq(s, 1, Len(p)) = p

endsWith(s, p) == Len(s) >= Len(p) /\ SubSeq(s, Len(s) - Len(p) + 1, Len(s)) = p

RECURSIVE padEnd(_, _)
padEnd(s, n) == IF Len(s) >= n THEN s ELSE padEnd(s \o " ", n)

\* String.prototype.replace(/c/g, ...) and toLowerCase/toUpperCase: the
\* characters of s, each one mapped by f where f is defined
RECURSIVE MapChars(_, _)
MapChars(s, f) ==
    IF s = "" THEN ""
    ELSE LET c == SubSeq(s, 1, 1)
         IN (IF c \in DOMAIN f THEN f[c] ELSE c) \o MapChars(SubSeq(s, 2, Len(s)), f)

toLowerCase ==
    [A |-> "a", B |-> "b", C |-> "c", D |-> "d", E |-> "e", F |-> "f", G |-> "g",
     H |-> "h", I |-> "i", J |-> "j", K |-> "k", L |-> "l", M |-> "m", N |-> "n",
     O |-> "o", P |-> "p", Q |-> "q", R |-> "r", S |-> "s", T |-> "t", U |-> "u",
     V |-> "v", W |-> "w", X |-> "x", Y |-> "y", Z |-> "z"]

\* relation.delete?.toUpperCase().replace(/-/g, " ")
toUpperCaseAndBlank ==
    ("-" :> " ") @@
    [a |-> "A", b |-> "B", c |-> "C", d |-> "D", e |-> "E", f |-> "F", g |-> "G",
     h |-> "H", i |-> "I", j |-> "J", k |-> "K", l |-> "L", m |-> "M", n |-> "N",
     o |-> "O", p |-> "P", q |-> "Q", r |-> "R", s |-> "S", t |-> "T", u |-> "U",
     v |-> "V", w |-> "W", x |-> "X", y |-> "Y", z |-> "Z"]

\* column.description.replace(/'/g, "''")
doubleQuotes == ("'" :> "''")

\* the characters of the sorted lines, in ascending order of their UTF-16
\* code units
CodeUnits == "\n !\"#$%&'()*+,-./0123456789:;<=>?@ABCDEFGHIJKLMNOPQRSTUVWXYZ[\\]^_abcdefghijklmnopqrstuvwxyz{|}~"

CodeUnit ==
    [c \in {SubSeq(CodeUnits, i, i) : i \in 1..Len(CodeUnits)} |->
        CHOOSE i \in 1..Len(CodeUnits) : SubSeq(CodeUnits, i, i) = c]

\* the order of Array.prototype.sort() without a comparator: strings by
\* code unit, a proper prefix first
\* a and b agree before position i
RECURSIVE LessFrom(_, _, _)
LessFrom(a, b, i) ==
    IF i > Len(b) THEN FALSE
    ELSE IF i > Len(a) THEN TRUE
    ELSE LET ca == CodeUnit[SubSeq(a, i, i)]
             cb == CodeUnit[SubSeq(b, i, i)]
         IN IF ca # cb THEN ca < cb ELSE LessFrom(a, b, i + 1)

StringLess(a, b) == LessFrom(a, b, 1)

RECURSIVE InsertLine(_, _)
InsertLine(sorted, l) ==
    IF sorted = <<>> THEN <<l>>
    ELSE IF StringLess(Concat(l), Concat(Head(sorted))) THEN <<l>> \o sorted
    ELSE <<Head(sorted)>> \o InsertLine(Tail(sorted), l)

\* lines.sort(): each line is a sequence of fragments, ordered by its text
RECURSIVE sort(_)
sort(ls) ==
    IF ls = <<>> THEN <<>>
    ELSE InsertLine(sort(SubSeq(ls, 1, Len(ls) - 1)), ls[Len(ls)])

dataTypes ==
    [array |-> "JSON", boolean |-> "BOOLEAN", date |-> "DATETIME", integer |-> "INTEGER",
     object |-> "JSON", number |-> "DOUBLE", string |-> "VARCHAR"]

serialType == [sqlite |-> " AUTOINCREMENT", mysql |-> " AUTO_INCREMENT", postgres |-> ""]

padWidth == 4

defaultWidth == 128

textWidth == 2048

\* JavaScript values held by the fields of a Column: a number that may be
\* undefined, and a value of any type written as its kind and its text
NoNumber == [def |-> FALSE, n |-> 0]
Num(n) == [def |-> TRUE, n |-> n]

Val(kind, text) == [kind |-> kind, text |-> text]
NoVal == Val("undefined", "")

truthy(v) ==
    ~ \/ v.kind = "undefined"
      \/ v.kind = "number" /\ v.text = "0"
      \/ v.kind = "boolean" /\ v.text = "false"
      \/ v.kind = "string" /\ v.text = ""
      \/ v.kind = "object" /\ v.text = "null"

\* Column.as: undefined, a string, or a map from dialect to string
NoAs == [kind |-> "undefined", expr |-> <<>>, by |-> [d \in Providers |-> <<>>]]
AsString(e) == [kind |-> "string", expr |-> e, by |-> [d \in Providers |-> <<>>]]
AsMap(m) == [kind |-> "object", expr |-> <<>>, by |-> m]

asTruthy(as) == as.kind = "object" \/ (as.kind = "string" /\ as.expr # <<>>)

\* DB._sqlFilter: sql.replaceAll(" ORDER BY NULL", "")
_sqlFilter(fs) == SelectSeq(fs, LAMBDA f : f # " ORDER BY NULL")

\* DDL.#defaultValue(column, dbType)
defaultValue(column, dbType) ==
    LET cd == column.default
    IN IF column.dateOn = "insert" THEN Val("string", "CURRENT_TIMESTAMP")
       ELSE IF column.dateOn = "update"
            THEN Val("string", "CURRENT_TIMESTAMP" \o
                     (IF dbType # Provider.MYSQL THEN "" ELSE " ON UPDATE CURRENT_TIMESTAMP"))
       ELSE IF asTruthy(column.as) THEN NoVal
       ELSE IF cd.kind = "string" /\ startsWith(cd.text, "('") /\ endsWith(cd.text, "')") THEN cd
       ELSE IF cd.kind = "string" /\ ~ startsWith(cd.text, "'") /\ ~ endsWith(cd.text, "'")
            THEN Val("string", "'" \o cd.text \o "'")
       ELSE IF cd.kind = "object" THEN Val("string", "('" \o cd.text \o "')")
       ELSE cd

Thrown == [err |-> TRUE, sql |-> <<>>]
Returned(fs) == [err |-> FALSE, sql |-> fs]

\* DDL.createColumn(dbType, name, column, required, namePad); a column type
\* outside dataTypes leaves `type` undefined, and type.endsWith then throws
\* unless maxLength < textWidth decides the condition before it; a dialect
\* outside serialType leaves `gen` undefined; the template literal writes an
\* undefined value as the text "undefined"
createColumn(dbType, name, column, required, namePad) ==
    LET pad == padEnd("", padWidth)
        known == column.type \in DOMAIN dataTypes
        type0 == IF known THEN dataTypes[column.type] ELSE "undefined"
        type1 == IF dbType = Provider.MYSQL /\ column.maxLength.def /\ column.maxLength.n > textWidth
                 THEN "TEXT" ELSE type0
        typed == known \/ type1 = "TEXT"
        primaryKey == column.primaryKey # "undefined"
        autoIncrement == primaryKey /\ column.type = "integer"
        short == column.maxLength.def /\ column.maxLength.n < textWidth
        length == IF short \/ endsWith(type1, "CHAR")
                  THEN "(" \o ToString(IF column.maxLength.def THEN column.maxLength.n ELSE defaultWidth) \o ")"
                  ELSE ""
        nullable == IF primaryKey \/ required THEN " NOT NULL" ELSE ""
        gen == IF ~ autoIncrement THEN ""
               ELSE IF dbType \in DOMAIN serialType THEN serialType[dbType] ELSE "undefined"
        expr == IF ~ asTruthy(column.as) THEN <<>>
                ELSE IF column.as.kind = "string" THEN _sqlFilter(column.as.expr)
                ELSE IF dbType \in DOMAIN column.as.by THEN column.as.by[dbType] ELSE <<>>
        as == IF expr # <<>> THEN <<" GENERATED ALWAYS AS (">> \o expr \o <<") STORED">> ELSE <<>>
        dv == defaultValue(column, dbType)
        key == IF primaryKey THEN " PRIMARY KEY"
               ELSE IF column.unique # "undefined" THEN " UNIQUE" ELSE ""
        comment == IF dbType = Provider.MYSQL /\ column.description # ""
                   THEN " COMMENT '" \o MapChars(column.description, doubleQuotes) \o "'" ELSE ""
        type2 == IF dbType = Provider.POSTGRES /\ type1 = "JSON" THEN "JSONB" ELSE type1
        type == IF dbType = Provider.POSTGRES /\ autoIncrement THEN "SERIAL" ELSE type2
    IN IF ~ short /\ ~ typed THEN Thrown
       ELSE Returned(<<pad, padEnd(name, namePad), type>> \o Frag(length) \o Frag(nullable) \o as
                     \o (IF truthy(dv) THEN <<" DEFAULT ", dv.text>> ELSE <<>>)
                     \o Frag(key) \o Frag(gen) \o Frag(comment) \o <<",\n">>)

\* DDL.createIndex(dbType, index, 0, table)
createIndex(dbType, index, table) ==
    LET pad == padEnd("", 0)
        cols == index.properties
        name == Concat(JoinTok([i \in 1..Len(cols) |-> <<cols[i]>>], "_"))
        subType == IF index.subType = "" THEN "CHAR(32)" ELSE index.subType
        columns == [i \in 1..Len(cols) |->
                       IF index.array.def /\ index.array.n + 1 = i
                       THEN "(CAST(" \o cols[i] \o " AS " \o subType
                            \o (IF dbType = Provider.MYSQL THEN " ARRAY" ELSE "") \o "))"
                       ELSE cols[i]]
        unique == IF index.unique THEN "UNIQUE " ELSE ""
    IN Frag(pad) \o <<"CREATE ">> \o Frag(unique) \o <<"INDEX ", table \o "_" \o name, " ON ", table, " (">>
       \o JoinTok([i \in 1..Len(columns) |-> <<columns[i]>>], ",") \o <<");\n">>

\* DDL.createFullTextIndex(dbType, columns, 0, table)
createFullTextIndex(dbType, columns, table) ==
    LET name == "fulltext"
        plain == JoinTok([i \in 1..Len(columns) |-> <<columns[i]>>], ",")
        coalesced == JoinTok([i \in 1..Len(columns) |-> <<"COALESCE(" \o columns[i] \o ",'')">>], "||' '||")
    IN IF dbType = Provider.MYSQL
       THEN <<"CREATE FULLTEXT INDEX ", table \o "_" \o name, " ON ", table, " (">> \o plain \o <<");\n">>
       ELSE IF dbType = Provider.POSTGRES
       THEN <<"CREATE INDEX ", table \o "_" \o name, " ON ", table, " USING GIN (TO_TSVECTOR('english', ">>
            \o coalesced \o <<"));">>
       ELSE <<>>

\* DDL.createRelation(dbType, parent, name, relation)
createRelation(parent, name, relation) ==
    LET pad == padEnd("", 4)
        da == IF relation.delete # "" THEN " ON DELETE " \o MapChars(relation.delete, toUpperCaseAndBlank) ELSE ""
        ua == IF relation.update # "" THEN " ON DELETE " \o MapChars(relation.update, toUpperCaseAndBlank) ELSE ""
    IN <<pad, "CONSTRAINT ", parent \o "_" \o name, " FOREIGN KEY (", relation.join, ") REFERENCES ",
         relation.target, " (id)">> \o Frag(da) \o Frag(ua) \o <<",\n">>

\* value(v) of DDL.createColumnConstraint
value(v) == IF v.kind = "string" THEN "'" \o v.text \o "'" ELSE v.text

\* DDL.createColumnConstraint(dbType, parent, name, column)
createColumnConstraint(dbType, parent, name, column) ==
    LET pad == padEnd("", 4)
        expr == IF column.constraint # <<>> THEN column.constraint
                ELSE IF truthy(column.maximum) THEN <<name, " >= ", value(column.maximum)>>
                ELSE IF truthy(column.minimum) THEN <<name, " >= ", value(column.minimum)>>
                ELSE <<>>
        full == parent \o "_" \o name
    IN IF expr # <<>>
       THEN <<pad>> \o (IF full # "" /\ dbType # "sqlite" THEN <<"CONSTRAINT ", full, " ">> ELSE <<>>)
            \o <<"CHECK (">> \o expr \o <<")", ",\n">>
       ELSE <<>>

\* DDL.createIndependentConstraint(dbType, parent, constraint): a constraint is
\* a string or an object {name, check, provider}
createIndependentConstraint(dbType, parent, constraint) ==
    LET pad == padEnd("", 4)
        simple == constraint.simple
        given == IF constraint.name = "" THEN "undefined" ELSE constraint.name
        name == IF simple THEN "" ELSE MapChars(parent \o "_" \o given, toLowerCase)
        expr == constraint.check
    IN <<pad>> \o (IF name # "" /\ dbType # "sqlite" THEN <<"CONSTRAINT ", name, " ">> ELSE <<>>)
       \o <<"CHECK (">> \o expr \o <<")", ",\n">>

\* DDL.#postgres(sql): every word of the text that is one of the four
postgres(fs) ==
    [i \in 1..Len(fs) |->
        IF fs[i] = "DATETIME" THEN "TIMESTAMP"
        ELSE IF fs[i] = "JSON_EXTRACT" THEN "JSONB_EXTRACT_PATH"
        ELSE IF fs[i] = "RLIKE" THEN "~*"
        ELSE IF fs[i] = "REGEXP" THEN "~*"
        ELSE fs[i]]

fixDanglingComma_Skipped(fs) == fs

\* sql.replace(/,\n\)/, "\n);"): the first ",\n" that a ")" follows
fixDanglingComma(fs) ==
    LET hits == {i \in 1..(Len(fs) - 1) : fs[i] = ",\n" /\ fs[i + 1] = ")"}
    IN IF hits = {} THEN fs
       ELSE LET i == CHOOSE h \in hits : \A g \in hits : h <= g
            IN SubSeq(fs, 1, i - 1) \o <<"\n);">> \o SubSeq(fs, i + 2, Len(fs))

Max(S) == CHOOSE m \in S : \A n \in S : n <= m

\* DDL.createTable(schema, dbType, nameOverride)
createTable(schema, dbType, nameOverride) ==
    LET props == schema.properties
        namePad == IF Len(props) = 0 THEN 0 ELSE Max({Len(props[i].name) : i \in 1..Len(props)}) + 1
        sqlite == dbType = Provider.SQLITE
        table == IF nameOverride # "undefined" THEN nameOverride ELSE schema.table
        required(n) == n \in schema.required
        cols == [i \in 1..Len(props) |->
                    createColumn(dbType, props[i].name, props[i].column, required(props[i].name), namePad)]
        columns == Flatten([i \in 1..Len(props) |-> cols[i].sql])
        relations == IF ~ sqlite
                     THEN Flatten([i \in 1..Len(schema.relations) |->
                              createRelation(table, schema.relations[i].name, schema.relations[i].relation)])
                     ELSE <<>>
        filter(c) == c.provider = "" \/ c.provider = dbType
        columnConstraints == [i \in 1..Len(props) |->
                                 createColumnConstraint(dbType, table, props[i].name, props[i].column)]
        kept == SelectSeq(schema.constraints, filter)
        independentConstraints == [i \in 1..Len(kept) |-> createIndependentConstraint(dbType, table, kept[i])]
        constraints == Flatten(sort(columnConstraints \o independentConstraints))
        body == <<"CREATE TABLE IF NOT EXISTS ", table, " (\n">> \o columns \o relations \o constraints \o <<")">>
        names == {props[i].name : i \in 1..Len(props)}
        own == SelectSeq(props, LAMBDA p : p.column.index # <<>>)
        dangling == \E i \in 1..Len(own) : \E j \in 1..Len(own[i].column.index) :
                        own[i].column.index[j] \notin names
        typeOf(n) == (CHOOSE p \in {props[i] : i \in 1..Len(props)} : p.name = n).column.type
        arrayOf(ix) == LET hits == {j \in 1..Len(ix) : typeOf(ix[j]) = "array"}
                       IN IF hits = {} THEN NoNumber
                          ELSE Num((CHOOSE h \in hits : \A g \in hits : h <= g) - 1)
        indices == schema.indices \o
                   [i \in 1..Len(own) |->
                       [properties |-> own[i].column.index, array |-> arrayOf(own[i].column.index),
                        subType |-> "", unique |-> FALSE]]
        withIndices == IF Len(indices) > 0
                       THEN body \o <<"\n">> \o Flatten(sort([i \in 1..Len(indices) |-> createIndex(dbType, indices[i], table)]))
                       ELSE body
        withFullText == IF Len(schema.fullText) > 0
                        THEN withIndices \o createFullTextIndex(dbType, schema.fullText, table)
                        ELSE withIndices
        passed == IF dbType = Provider.POSTGRES THEN postgres(withFullText) ELSE withFullText
    IN IF (\E i \in 1..Len(props) : cols[i].err) \/ dangling THEN Thrown
       ELSE Returned(fixDanglingComma(passed))

(* Inputs of DDL.createTable *)

\* the values of the argument dbType: the three of DB.Provider and one that
\* is none of them
Dialects == Providers \cup {"oracle"}

BaseColumn ==
    [type |-> "string", maxLength |-> NoNumber, primaryKey |-> "undefined", unique |-> "undefined",
     default |-> NoVal, dateOn |-> "", as |-> NoAs, constraint |-> <<>>,
     minimum |-> NoVal, maximum |-> NoVal, description |-> "", index |-> <<>>]

Defaults ==
    {NoVal, Val("number", "5"), Val("number", "0"), Val("boolean", "false"),
     Val("string", "US"), Val("string", "('[]')"), Val("object", "{\"a\":1}")}

Generated ==
    {NoAs,
     AsString(<<"JSON_EXTRACT", "(c1, '$.a')">>),
     AsMap([d \in Providers |-> IF d = Provider.MYSQL THEN <<"c1 + 1">> ELSE <<>>])}

\* columns that vary in type, key, default, timestamp and generated expression
KeyColumns ==
    {[BaseColumn EXCEPT !.type = t, !.primaryKey = pk, !.default = cd, !.dateOn = on, !.as = as] :
        t \in {"integer", "string", "date"}, pk \in {"undefined", "true", "false"},
        cd \in Defaults, on \in {"", "insert", "update"}, as \in Generated}

\* columns that vary in type, length, uniqueness and description
SizedColumns ==
    {[BaseColumn EXCEPT !.type = t, !.maxLength = ml, !.unique = u, !.description = de] :
        t \in {"string", "integer", "object"}, ml \in {NoNumber, Num(64), Num(8192)},
        u \in {"undefined", "true"}, de \in {"", "it's"}}

Limits == {NoVal, Val("number", "0"), Val("number", "1"), Val("string", "2020")}

\* columns that vary in their inline constraint and bounds
CheckedColumns ==
    {[BaseColumn EXCEPT !.type = "integer", !.constraint = co, !.minimum = mn, !.maximum = mx] :
        co \in {<<>>, <<"id > 0">>}, mn \in Limits, mx \in Limits}

Property(n, c) == [name |-> n, column |-> c]

ColumnNames == <<"id", "c1", "c2", "c3">>

\* the columns a table of several columns draws from, for the column named n
TableColumns(n) ==
    <<[BaseColumn EXCEPT !.type = "integer", !.primaryKey = "true"],
      [BaseColumn EXCEPT !.constraint = <<n, " ", "REGEXP", " '^x'">>],
      [BaseColumn EXCEPT !.type = "date", !.dateOn = "insert", !.minimum = Val("string", "2020"),
                         !.index = <<n>>]>>

PropertySeqs(n) ==
    UNION {{[i \in 1..k |-> Property(ColumnNames[i], TableColumns(ColumnNames[i])[vs[i]])] :
               vs \in [1..k -> 1..3]} : k \in 0..n}

RelationNames == <<"org", "owner", "group">>

Relations ==
    {[join |-> "id", target |-> "orgs", delete |-> "cascade", update |-> ""],
     [join |-> "c1", target |-> "users", delete |-> "", update |-> "set-null"]}

RelationSeqs(n) ==
    UNION {{[i \in 1..k |-> [name |-> RelationNames[i], relation |-> rs[i]]] : rs \in [1..k -> Relations]} :
              k \in 0..n}

Constraints ==
    {[simple |-> TRUE, name |-> "", check |-> <<"c1 < c2">>, provider |-> ""],
     [simple |-> FALSE, name |-> "K1", check |-> <<"c2 > 0">>, provider |-> ""],
     [simple |-> FALSE, name |-> "K2", check |-> <<"c1 ", "RLIKE", " 'a'">>, provider |-> "mysql"]}

\* schema.indices with schema.fullText
Indices ==
    {[indices |-> <<>>, fullText |-> <<>>],
     [indices |-> <<[properties |-> <<"id", "c1">>, array |-> NoNumber, subType |-> "", unique |-> TRUE]>>,
      fullText |-> <<"id", "c1">>],
     [indices |-> <<[properties |-> <<"c1">>, array |-> Num(0), subType |-> "", unique |-> FALSE]>>,
      fullText |-> <<>>]}

Schema(ps, rq, rs, cs, ix, ft) ==
    [table |-> "t", properties |-> ps, required |-> rq, relations |-> rs, constraints |-> cs,
     indices |-> ix, fullText |-> ft]

\* tables of one column, the column varying
ColumnSchemas ==
    {Schema(<<Property("id", c)>>, rq, <<>>, <<>>, <<>>, <<>>) :
        c \in KeyColumns \cup SizedColumns \cup CheckedColumns, rq \in {{}, {"id"}}}

\* tables that vary in their columns, relations, constraints and indices
TableSchemas ==
    {Schema(ps, {}, rs, cs, ix.indices, ix.fullText) :
        ps \in PropertySeqs(MaxColumns), rs \in RelationSeqs(MaxRelations),
        cs \in SeqsUpTo(Constraints, MaxConstraints), ix \in Indices}

Schemas == ColumnSchemas \cup TableSchemas

\* columns whose type may be no key of dataTypes
LooseColumns ==
    {[BaseColumn EXCEPT !.type = t, !.maxLength = ml, !.primaryKey = pk, !.as = as] :
        t \in {"string", "integer", "money"}, ml \in {NoNumber, Num(64), Num(8192)},
        pk \in {"undefined", "true"}, as \in Generated}

\* tables of one such column
LooseSchemas ==
    {Schema(<<Property("id", c)>>, rq, <<>>, <<>>, <<>>, <<>>) : c \in LooseColumns, rq \in {{}, {"id"}}}

-----------------------------------------------------------------------------
(* Schemas.generate and Schemas.outdated *)

\* Time is counted in ticks of the file system's modification time; the
\* date of a schema's $id and the date compared with it are cut to seconds.

\* date.toISOString().substring(0, 19)
seconds(t) == t \div TicksPerSecond

\* Deno.stat(file)
stat(text, mtime) == [mtime |-> mtime, size |-> Len(text)]

\* eTag(fileInfo) of @std/http/etag: a digest of the modification time and the size
NoEtag == [def |-> FALSE, mtime |-> 0, size |-> 0]
eTag(fileInfo) == [def |-> TRUE, mtime |-> fileInfo.mtime, size |-> fileInfo.size]

NoId == [def |-> FALSE, date |-> 0]

\* Schemas.outdated(schema, base)
outdated(id, etag, base, fileInfo) ==
    IF ~ startsWith(base, "/") THEN "throws"
    ELSE IF ~ id.def THEN "throws"
    ELSE LET schemaDate == id.date
             fileDate == seconds(fileInfo.mtime)
         IN IF schemaDate < fileDate THEN "true"
            ELSE IF etag # eTag(fileInfo) THEN "true" ELSE "false"

\* Schemas.outdatedSchemas(schemas, base) over the one class of the schemas:
\* the names of the outdated classes, or the error of Schemas.outdated
outdatedSchemas(id, etag, base, fileInfo) ==
    LET o == outdated(id, etag, base, fileInfo)
    IN IF o = "throws" THEN "throws" ELSE IF o = "true" THEN <<"C">> ELSE <<>>

NoEnsure ==
    [called |-> FALSE, supplied |-> FALSE, outdated |-> "undefined", schemasFile |-> FALSE,
     generated |-> FALSE, written |-> FALSE, returned |-> "none"]

\* Schemas.ensure(schemas, classFiles, generator, base, enhance, schemasFile) and
\* DDL.ensureSchemas, which has the same body: what the call found and did
ensure(supplied, id, etag, base, fileInfo, schemasFile) ==
    LET out == IF ~ supplied THEN "undefined" ELSE outdatedSchemas(id, etag, base, fileInfo)
        call == [NoEnsure EXCEPT !.called = TRUE, !.supplied = supplied,
                                 !.outdated = IF out = "undefined" \/ out = "throws" THEN out
                                              ELSE IF Len(out) > 0 THEN "true" ELSE "false",
                                 !.schemasFile = schemasFile]
    IN IF out = "throws" THEN [call EXCEPT !.returned = "throws"]
       ELSE IF out = "undefined" \/ Len(out) > 0 THEN [call EXCEPT !.returned = "supplied"]
       ELSE [call EXCEPT !.generated = TRUE, !.written = schemasFile, !.returned = "regenerated"]

Contents == {"a", "b", "cc"}

Bases == {"/app", "app"}

-----------------------------------------------------------------------------
(* DB._transformPlaceholders *)

\* The statement is a string and is handled character by character.

CharAt(s, i) == IF i >= 1 /\ i <= Len(s) THEN SubSeq(s, i, i) ELSE ""

\* / */ from position i: the position of the first character that is no blank
RECURSIVE SkipBlanks(_, _)
SkipBlanks(s, i) == IF CharAt(s, i) = " " THEN SkipBlanks(s, i + 1) ELSE i

OrderByNull == "ORDER BY NULL"

\* / *ORDER BY NULL *\n/ matched at position i: the position after the match,
\* 0 when there is no match at i
MatchOrderByNull(s, i) ==
    LET j == SkipBlanks(s, i)
        k == j + Len(OrderByNull)
        m == SkipBlanks(s, k)
    IN IF k - 1 <= Len(s) /\ SubSeq(s, j, k - 1) = OrderByNull /\ CharAt(s, m) = "\n"
       THEN m + 1 ELSE 0

\* sql.replace(/ *ORDER BY NULL *\n/g, "") from position i on
RECURSIVE StripFrom(_, _)
StripFrom(s, i) ==
    IF i > Len(s) THEN ""
    ELSE LET e == MatchOrderByNull(s, i)
         IN IF e # 0 THEN StripFrom(s, e)
            ELSE CharAt(s, i) \o StripFrom(s, i + 1)

RECURSIVE NumberFrom_SameCounter(_, _, _)
NumberFrom_SameCounter(s, i, counter) ==
    IF i > Len(s) THEN ""
    ELSE IF CharAt(s, i) = "?"
         THEN "$" \o ToString(counter + 1) \o NumberFrom_SameCounter(s, i + 1, counter)
         ELSE CharAt(s, i) \o NumberFrom_SameCounter(s, i + 1, counter)

\* sql.replace(/\?/g, (_p) => "$" + (++counter)) from position i on
RECURSIVE NumberFrom(_, _, _)
NumberFrom(s, i, counter) ==
    IF i > Len(s) THEN ""
    ELSE IF CharAt(s, i) = "?"
         THEN "$" \o ToString(counter + 1) \o NumberFrom(s, i + 1, counter + 1)
         ELSE CharAt(s, i) \o NumberFrom(s, i + 1, counter)

\* DB._transformPlaceholders(sql)
_transformPlaceholders(s) == NumberFrom(StripFrom(s, 1), 1, 0)

(* Inputs of DB._transformPlaceholders *)

\* pieces of statements: conditions with positional marks, the clause written
\* by Repository.find on the line of LIMIT, and the clause on a line of its own
StatementPieces ==
    {"a = ?", " AND b = ?", " ORDER BY NULL", "  ORDER BY NULL \n", " LIMIT ? OFFSET ?", "\n", "x"}

Statements == {Concat(ps) : ps \in SeqsUpTo(StatementPieces, MaxPieces)}

-----------------------------------------------------------------------------
(* Repository: the statements it issues and the events it dispatches *)

\* The repository is constructed without a schema, for the table "t".  The
\* database is the environment: a statement handed to DB.query or DB.execute
\* completes or is rejected.  A statement is its text, a sequence of tokens as
\* for Repository._where, and its parameters.

Hook ==
    [AFTER_DELETE |-> "after-delete", AFTER_INSERT |-> "after-insert", AFTER_UPDATE |-> "after-update",
     BEFORE_DELETE |-> "before-delete", BEFORE_INSERT |-> "before-insert", BEFORE_UPDATE |-> "before-update"]

this_table == "t"

Statement(text, parameters) == [sql |-> text, parameters |-> parameters]

\* { ...where, ...this.baseWhere }: the keys of where in their order, the
\* value of a key that baseWhere has too taken from baseWhere, then the other
\* keys of baseWhere
Spread(w, b) ==
    LET we == IF w.undef THEN <<>> ELSE w.entries
        be == IF b.undef THEN <<>> ELSE b.entries
        over(e) == IF \E j \in 1..Len(be) : be[j].name = e.name
                   THEN Entry(e.name, be[CHOOSE j \in 1..Len(be) : be[j].name = e.name].value)
                   ELSE e
        fresh(e) == \A i \in 1..Len(we) : we[i].name # e.name
    IN Cond([i \in 1..Len(we) |-> over(we[i])] \o SelectSeq(be, fresh))

\* Repository._order(order)
_order(order) ==
    JoinTok([i \in 1..Len(order) |->
                <<order[i].name \o (IF order[i].value = "DESC" THEN " DESC" ELSE " ASC")>>], ",")

\* toRecord(object) without a schema: the own keys of the object whose value
\* is not undefined
toRecord(object) == SelectSeq(object, LAMBDA p : p.value # "undefined")

\* object.id, "undefined" when the object has no such key
IdOf(object) ==
    IF \E i \in 1..Len(object) : object[i].name = "id"
    THEN object[CHOOSE i \in 1..Len(object) : object[i].name = "id"].value
    ELSE "undefined"

\* typeof id === "number" && Number.isInteger(id)
IsInteger(v) == v \in {"7", "8"}

\* what a call leaves behind: the statements it handed to the database, the
\* events and the database calls in their order, and whether it threw
Outcome(stmts, tr, th) == [statements |-> stmts, trace |-> tr, thrown |-> th]

Rejected == Outcome(<<>>, <<>>, TRUE)

\* await DB.query(sql, parameters)
Queried(stmt, ok) == Outcome(<<stmt>>, <<"query">>, ~ ok)

\* dispatchEvent(before); await DB.execute(sql, parameters); dispatchEvent(after)
ExecutedWithEvents(stmt, before, after, ok) ==
    Outcome(<<stmt>>, IF ok THEN <<before, "execute", after>> ELSE <<before, "execute">>, ~ ok)

\* Repository.all
all(base, dbType, ok) ==
    LET w == _where(base, <<>>, <<>>, dbType)
    IN Queried(Statement(<<"SELECT * FROM", this_table, "WHERE">> \o w.sql, w.tree), ok)

\* Repository.count(where = {})
Repository_count(base, dbType, w0, ok) ==
    LET w == _where(Spread(w0, base), <<>>, <<>>, dbType)
    IN Queried(Statement(<<"SELECT COUNT(1) AS count FROM", this_table, "WHERE">> \o w.sql, w.tree), ok)

\* Repository.delete(where): no event is dispatched
delete(base, dbType, w0, ok) ==
    IF w0.undef THEN Rejected
    ELSE LET w == _where(Spread(w0, base), <<>>, <<>>, dbType)
         IN Outcome(<<Statement(<<"DELETE FROM", this_table, "WHERE">> \o w.sql, w.tree)>>, <<"execute">>, ~ ok)

\* Repository.deleteById(id)
deleteById(base, dbType, id, ok) ==
    IF ~ IsInteger(id) THEN Rejected
    ELSE LET w == _where(base, <<>>, <<>>, dbType)
         IN ExecutedWithEvents(
                Statement(<<"DELETE FROM", this_table, "WHERE", "id", "=", "?", "AND">> \o w.sql, <<id>> \o w.tree),
                Hook.BEFORE_DELETE, Hook.AFTER_DELETE, ok)

\* Repository.find(filter = {}): filter.where, filter.order and filter.limit;
\* without a schema there is no full-text column
find(base, dbType, filter, ok) ==
    LET w == _where(Spread(filter.where, base), <<>>, <<>>, dbType)
        o == _order(filter.order)
    IN Queried(Statement(<<"SELECT", "*", "FROM", this_table, "WHERE">> \o w.sql
                           \o <<"ORDER BY">> \o (IF o = <<>> THEN <<"NULL">> ELSE o)
                           \o <<"LIMIT", "?", "OFFSET", "?">>,
                         w.tree \o <<filter.limit, "0">>), ok)

\* Repository.findById(id)
findById(base, dbType, id, ok) ==
    IF ~ IsInteger(id) THEN Rejected
    ELSE LET w == _where(base, <<>>, <<>>, dbType)
         IN Queried(Statement(<<"SELECT * FROM", this_table, "WHERE", "id", "=", "?", "AND">> \o w.sql,
                              <<id>> \o w.tree), ok)

\* Repository.findOne(filter = {})
findOne(base, dbType, filter, ok) == find(base, dbType, [filter EXCEPT !.limit = "1"], ok)

\* Repository.insert(object)
insert(dbType, object, ok) ==
    LET record == toRecord(object)
        columns == JoinTok([i \in 1..Len(record) |-> <<CQ \o record[i].name \o CQ>>], ",")
        returning == IF dbType = Provider.POSTGRES THEN <<"RETURNING id">> ELSE <<>>
    IN ExecutedWithEvents(
           Statement(<<"INSERT INTO", this_table, "(">> \o columns \o <<")", "VALUES", "(">>
                       \o join("?", Len(record)) \o <<")">> \o returning,
                     [i \in 1..Len(record) |-> record[i].value]),
           Hook.BEFORE_INSERT, Hook.AFTER_INSERT, ok)

\* Repository.update(object)
update(base, dbType, object, ok) ==
    IF ~ IsInteger(IdOf(object)) THEN Rejected
    ELSE LET record == SelectSeq(toRecord(object), LAMBDA p : p.name # "id")
             columns == JoinTok([i \in 1..Len(record) |-> <<CQ \o record[i].name \o CQ \o "=?">>], ",")
             w == _where(base, <<>>, <<>>, dbType)
         IN ExecutedWithEvents(
                Statement(<<"UPDATE", this_table, "SET">> \o columns \o <<"WHERE", "id", "=", "?", "AND">> \o w.sql,
                          [i \in 1..Len(record) |-> record[i].value] \o <<IdOf(object)>> \o w.tree),
                Hook.BEFORE_UPDATE, Hook.AFTER_UPDATE, ok)

\* Repository.updateById(id, object): this.update({ ...object, id })
updateById(base, dbType, id, object, ok) ==
    LET has == \E i \in 1..Len(object) : object[i].name = "id"
        merged == IF has
                  THEN [i \in 1..Len(object) |->
                           IF object[i].name = "id" THEN [name |-> "id", value |-> id] ELSE object[i]]
                  ELSE Append(object, [name |-> "id", value |-> id])
    IN update(base, dbType, merged, ok)

(* Inputs of the repository *)

\* the conditions handed to setBaseWhere
BaseConds ==
    {Cond(<<Entry("b", Prim("2"))>>),
     Cond(<<Entry("b", Prim("2")), Entry("x", Prim("X"))>>)}

OrKids == <<Cond(<<Entry("x", Prim("X"))>>), Cond(<<Entry("d", Pred(<<Op("lte", "now")>>))>>)>>

\* the conditions a caller passes: none, the empty object, columns of their
\* own, a column baseWhere has too, a skipped predicate and an or
CallerConds ==
    {Undefined,
     Cond(<<>>),
     Cond(<<Entry("a", Prim("1"))>>),
     Cond(<<Entry("b", Prim("3"))>>),
     Cond(<<Entry("a", Pred(<<Op("match", "")>>))>>),
     Cond(<<Entry("a", Pred(<<Op("gt", "1")>>)), Entry("b", Prim("3"))>>),
     Cond(<<Entry("or", List(OrKids))>>),
     Cond(<<Entry("a", Prim("1")), Entry("or", List(OrKids))>>)}

Filters ==
    {[where |-> w, order |-> o, limit |-> "100"] :
        w \in CallerConds, o \in {<<>>, <<[name |-> "a", value |-> "DESC"]>>}}

Ids == {"7", "x"}

Objects ==
    {<<[name |-> "n", value |-> "X"]>>,
     <<[name |-> "id", value |-> "8"], [name |-> "n", value |-> "X"]>>,
     <<[name |-> "id", value |-> "8"], [name |-> "n", value |-> "undefined"], [name |-> "m", value |-> "1"]>>}

-----------------------------------------------------------------------------
(* DB.connect and DB.getRepository *)

MaxConnects == 2

MaxRepositories == 3

\* DB.client before the first connection, and the client connect(config) makes
NoClient == [id |-> 0, type |-> ""]
Client(id, type) == [id |-> id, type |-> type]

\* a schema as DB.connect and DB.getRepository read it: its table and its type
NoSchema == [table |-> "", type |-> ""]

SchemaNames == {"users", "User", "Employees", "Account"}

\* DB.#schemas after clear() and the forEach of DB.connect: each schema is set
\* under its table and, if it has one, under its type
Registered(ss) ==
    [n \in SchemaNames |->
        LET at == {i \in 1..Len(ss) : ss[i].table = n \/ (ss[i].type # "" /\ ss[i].type = n)}
        IN IF at = {} THEN NoSchema ELSE ss[CHOOSE i \in at : \A j \in at : j <= i]]

\* a target is a table name or a class
StringTarget(n) == [kind |-> "string", name |-> n]
ClassTarget(n) == [kind |-> "class", name |-> n]

\* the class Object
ObjectClass == ClassTarget("Object")

NoRepository == [id |-> 0, type |-> "", table |-> ""]

\* new Repository(target, schema, schema?.table ?? name), the id-th instance made
Repository(id, type, schema, name) ==
    [id |-> id, type |-> type.name, table |-> IF schema # NoSchema THEN schema.table ELSE name]

\* DB.getRepository(target): the repository returned and DB.#repositories after the call
getRepository(repositories, schemas, target, id) ==
    LET cached == repositories[target]
        name == target.name
        type == IF target.kind = "string" THEN ObjectClass ELSE target
        made == Repository(id, type, schemas[name], name)
    IN IF cached # NoRepository THEN [repository |-> cached, repositories |-> repositories]
       ELSE [repository |-> made, repositories |-> [repositories EXCEPT ![type] = made]]

ConfigTypes == Providers

SchemaLists == {<<>>, <<[table |-> "users", type |-> "User"]>>}

Targets == {StringTarget("Employees"), StringTarget("users"), ClassTarget("User"), ClassTarget("Account")}

\* a call of DB.connect: before it, after it returned a client, after it threw
NoConnect == [pc |-> "idle", type |-> "", ensure |-> FALSE, returned |-> 0]
ConnectReturned(id) == [NoConnect EXCEPT !.pc = "done", !.returned = id]
ConnectRejected == [NoConnect EXCEPT !.pc = "failed"]

-----------------------------------------------------------------------------
(* KV.insert *)

MaxInserts == 2

\* what kv.get gives for a key: the value and the versionstamp of the entry
NoEntry == [value |-> 0, versionstamp |-> 0]

\* the values of the key property of the objects inserted
Titles == {"A", "B"}

\* the ids of the objects inserted: 0 for an object without id
GivenIds == {0, 9}

NoInsert == [pc |-> "idle", title |-> "", id |-> 0, given |-> FALSE, auto |-> NoEntry, ok |-> FALSE]

\* kv.atomic().check(auto).set(key, incr).commit() of KV.#auto: the entry of
\* the key after it; the commit changes nothing when the versionstamp moved
commit(entry, auto, incr) ==
    IF entry.versionstamp = auto.versionstamp
    THEN [value |-> incr, versionstamp |-> entry.versionstamp + 1]
    ELSE entry

-----------------------------------------------------------------------------
(* The calls *)

IdleBind ==
    /\ sql = <<>>
    /\ objectParameters = [n \in ParamNames |-> Absent]
    /\ arrayParameters = <<>>
    /\ safe = FALSE
    /\ bindSql = <<>>
    /\ bindErr = FALSE
    /\ bindCalls = 0

IdleWhere ==
    /\ DBtype = Provider.MYSQL
    /\ where = Undefined
    /\ fullTextColumns = <<>>
    /\ tree = <<>>
    /\ whereSql = <<>>
    /\ wpc = "idle"

IdleDDL ==
    /\ ddlSchema = Schema(<<>>, {}, <<>>, <<>>, <<>>, <<>>)
    /\ ddlType = Provider.MYSQL
    /\ ddlName = "undefined"
    /\ ddlSql = <<>>
    /\ ddlErr = FALSE
    /\ dpc = "idle"

IdleFresh ==
    /\ clock = 0
    /\ fileText = "a"
    /\ fileMtime = 0
    /\ schemaId = NoId
    /\ schemaEtag = NoEtag
    /\ modifiedSince = FALSE
    /\ answer = "none"
    /\ ensured = NoEnsure

IdlePlace ==
    /\ placeSql = ""
    /\ placeOut = ""
    /\ ppc = "idle"

IdleRepo ==
    /\ baseWhere = Undefined
    /\ called = "none"
    /\ callWhere = Undefined
    /\ statements = <<>>
    /\ trace = <<>>
    /\ thrown = FALSE

IdleDB ==
    /\ DBclient = NoClient
    /\ DBschemas = Registered(<<>>)
    /\ DBrepositories = [k \in Targets \cup {ObjectClass} |-> NoRepository]
    /\ connects = [c \in 1..MaxConnects |-> NoConnect]
    /\ nativeClients = 0
    /\ instances = 0
    /\ handed = {}
    /\ overlapped = FALSE

IdleKV ==
    /\ kvAuto = NoEntry
    /\ kvEntries = [t \in Titles |-> 0]
    /\ inserts = [i \in 1..MaxInserts |-> NoInsert]

\* the caller's array may hold the arguments of an earlier statement
InitBind ==
    /\ sql \in Templates
    /\ objectParameters \in ObjectParameterSets
    /\ arrayParameters \in {<<>>, <<"9">>}
    /\ safe \in BOOLEAN
    /\ bindSql = <<>>
    /\ bindErr = FALSE
    /\ bindCalls = 0
    /\ IdleWhere /\ IdleDDL /\ IdleFresh /\ IdlePlace /\ IdleRepo /\ IdleDB /\ IdleKV

\* DB._transformParameters(sql, objectParameters, arrayParameters, safe)
CallTransform ==
    /\ bindCalls < MaxCalls
    /\ LET r == _transformParameters(sql, objectParameters, arrayParameters, safe)
       IN /\ bindSql' = r.sql
          /\ bindErr' = r.err
          /\ arrayParameters' = r.arr
    /\ bindCalls' = bindCalls + 1
    /\ UNCHANGED <<sql, objectParameters, safe>>
    /\ UNCHANGED <<whereVars, ddlVars, freshVars, placeVars, repoVars, dbVars, kvVars>>

NextBind == CallTransform

InitWhere ==
    /\ DBtype \in Providers
    /\ where \in Conds
    /\ fullTextColumns \in FullTextColumnSets
    /\ tree = <<>>
    /\ whereSql = <<>>
    /\ wpc = "idle"
    /\ IdleBind /\ IdleDDL /\ IdleFresh /\ IdlePlace /\ IdleRepo /\ IdleDB /\ IdleKV

\* const sql = Repository._where(where, tree = [], fullTextColumns)
CallWhere ==
    /\ wpc = "idle"
    /\ LET r == _where(where, tree, fullTextColumns, DBtype)
       IN /\ whereSql' = r.sql
          /\ tree' = r.tree
    /\ wpc' = "done"
    /\ UNCHANGED <<DBtype, where, fullTextColumns>>
    /\ UNCHANGED <<bindVars, ddlVars, freshVars, placeVars, repoVars, dbVars, kvVars>>

NextWhere == CallWhere

\* the override of the table name is given with the tables of one column
InitDDL ==
    /\ ddlSchema \in Schemas
    /\ ddlType \in Providers
    /\ ddlName \in IF ddlSchema \in ColumnSchemas THEN {"undefined", "u"} ELSE {"undefined"}
    /\ ddlSql = <<>>
    /\ ddlErr = FALSE
    /\ dpc = "idle"
    /\ IdleWhere /\ IdleBind /\ IdleFresh /\ IdlePlace /\ IdleRepo /\ IdleDB /\ IdleKV

\* const sql = DDL.createTable(schema, dbType, nameOverride)
CallCreateTable ==
    /\ dpc = "idle"
    /\ LET r == createTable(ddlSchema, ddlType, ddlName)
       IN /\ ddlSql' = r.sql
          /\ ddlErr' = r.err
    /\ dpc' = "done"
    /\ UNCHANGED <<ddlSchema, ddlType, ddlName>>
    /\ UNCHANGED <<whereVars, bindVars, freshVars, placeVars, repoVars, dbVars, kvVars>>

NextDDL == CallCreateTable

\* the schema and the dialect are whatever the caller hands over
InitLoose ==
    /\ ddlSchema \in LooseSchemas
    /\ ddlType \in Dialects
    /\ ddlName = "undefined"
    /\ ddlSql = <<>>
    /\ ddlErr = FALSE
    /\ dpc = "idle"
    /\ IdleWhere /\ IdleBind /\ IdleFresh /\ IdlePlace /\ IdleRepo /\ IdleDB /\ IdleKV

\* a source file written before the clock starts, and a schema built by hand
InitFresh ==
    /\ clock = 0
    /\ fileText \in Contents
    /\ fileMtime = 0
    /\ schemaId = NoId
    /\ schemaEtag = NoEtag
    /\ modifiedSince = FALSE
    /\ answer = "none"
    /\ ensured = NoEnsure
    /\ IdleWhere /\ IdleBind /\ IdleDDL /\ IdlePlace /\ IdleRepo /\ IdleDB /\ IdleKV

\* the timestamp of the file system advances
Tick ==
    /\ clock < MaxTime
    /\ clock' = clock + 1
    /\ UNCHANGED <<fileText, fileMtime, schemaId, schemaEtag, modifiedSince, answer, ensured>>
    /\ UNCHANGED <<whereVars, bindVars, ddlVars, placeVars, repoVars, dbVars, kvVars>>

\* the source file is rewritten with another text
ModifySource(text) ==
    /\ text # fileText
    /\ fileText' = text
    /\ fileMtime' = clock
    /\ modifiedSince' = TRUE
    /\ answer' = "none"
    /\ UNCHANGED <<clock, schemaId, schemaEtag, ensured>>
    /\ UNCHANGED <<whereVars, bindVars, ddlVars, placeVars, repoVars, dbVars, kvVars>>

\* Schemas.generate: the etag of Deno.stat(f) and, in #clean, the $id with
\* new Date().toISOString().substring(0, 19) as its hash
Generate ==
    /\ schemaEtag' = eTag(stat(fileText, fileMtime))
    /\ schemaId' = [def |-> TRUE, date |-> seconds(clock)]
    /\ modifiedSince' = FALSE
    /\ answer' = "none"
    /\ UNCHANGED <<clock, fileText, fileMtime, ensured>>
    /\ UNCHANGED <<whereVars, bindVars, ddlVars, placeVars, repoVars, dbVars, kvVars>>

\* await Schemas.outdated(schema, base)
Check(base) ==
    /\ answer' = outdated(schemaId, schemaEtag, base, stat(fileText, fileMtime))
    /\ UNCHANGED <<clock, fileText, fileMtime, schemaId, schemaEtag, modifiedSince, ensured>>
    /\ UNCHANGED <<whereVars, bindVars, ddlVars, placeVars, repoVars, dbVars, kvVars>>

\* await Schemas.ensure(schemas, classFiles, generator, base, false, schemasFile):
\* the schemas passed are the ones held, or undefined
Ensure(supplied, base, schemasFile) ==
    LET e == ensure(supplied, schemaId, schemaEtag, base, stat(fileText, fileMtime), schemasFile)
    IN /\ ensured' = e
       /\ IF e.generated
          THEN /\ schemaEtag' = eTag(stat(fileText, fileMtime))
               /\ schemaId' = [def |-> TRUE, date |-> seconds(clock)]
               /\ modifiedSince' = FALSE
               /\ answer' = "none"
          ELSE UNCHANGED <<schemaId, schemaEtag, modifiedSince, answer>>
       /\ UNCHANGED <<clock, fileText, fileMtime>>
       /\ UNCHANGED <<whereVars, bindVars, ddlVars, placeVars, repoVars, dbVars, kvVars>>

NextFresh ==
    \/ Tick
    \/ \E text \in Contents : ModifySource(text)
    \/ Generate
    \/ \E base \in Bases : Check(base)
    \/ \E supplied \in BOOLEAN, base \in Bases, schemasFile \in BOOLEAN :
            Ensure(supplied, base, schemasFile)

InitPlace ==
    /\ placeSql \in Statements
    /\ placeOut = ""
    /\ ppc = "idle"
    /\ IdleWhere /\ IdleBind /\ IdleDDL /\ IdleFresh /\ IdleRepo /\ IdleDB /\ IdleKV

\* sql = DB._transformPlaceholders(sql)
CallTransformPlaceholders ==
    /\ ppc = "idle"
    /\ placeOut' = _transformPlaceholders(placeSql)
    /\ ppc' = "done"
    /\ UNCHANGED placeSql
    /\ UNCHANGED <<whereVars, bindVars, ddlVars, freshVars, repoVars, dbVars, kvVars>>

NextPlace == CallTransformPlaceholders

\* new Repository(type) with DB.type set by DB.connect
InitRepo ==
    /\ DBtype \in Providers
    /\ where = Undefined
    /\ fullTextColumns = <<>>
    /\ tree = <<>>
    /\ whereSql = <<>>
    /\ wpc = "idle"
    /\ IdleRepo
    /\ IdleBind /\ IdleDDL /\ IdleFresh /\ IdlePlace /\ IdleDB /\ IdleKV

\* the call of method m with the condition w has ended with the outcome r
Ended(m, w, r) ==
    /\ called' = m
    /\ callWhere' = w
    /\ statements' = r.statements
    /\ trace' = r.trace
    /\ thrown' = r.thrown
    /\ UNCHANGED baseWhere
    /\ UNCHANGED <<whereVars, bindVars, ddlVars, freshVars, placeVars, dbVars, kvVars>>

\* repository.setBaseWhere(bc)
CallSetBaseWhere(bc) ==
    /\ baseWhere' = bc
    /\ called' = "setBaseWhere"
    /\ callWhere' = Undefined
    /\ statements' = <<>>
    /\ trace' = <<>>
    /\ thrown' = FALSE
    /\ UNCHANGED <<whereVars, bindVars, ddlVars, freshVars, placeVars, dbVars, kvVars>>

\* one disjunct for each method of the repository, with its arguments
NextRepo ==
    \/ \E bc \in BaseConds : CallSetBaseWhere(bc)
    \/ \E ok \in BOOLEAN : Ended("all", Undefined, all(baseWhere, DBtype, ok))
    \/ \E w \in CallerConds, ok \in BOOLEAN :
           Ended("count", w, Repository_count(baseWhere, DBtype, w, ok))
    \/ \E w \in CallerConds, ok \in BOOLEAN :
           Ended("delete", w, delete(baseWhere, DBtype, w, ok))
    \/ \E id \in Ids, ok \in BOOLEAN :
           Ended("deleteById", Undefined, deleteById(baseWhere, DBtype, id, ok))
    \/ \E filter \in Filters, ok \in BOOLEAN :
           Ended("find", filter.where, find(baseWhere, DBtype, filter, ok))
    \/ \E id \in Ids, ok \in BOOLEAN :
           Ended("findById", Undefined, findById(baseWhere, DBtype, id, ok))
    \/ \E filter \in Filters, ok \in BOOLEAN :
           Ended("findOne", filter.where, findOne(baseWhere, DBtype, filter, ok))
    \/ \E object \in Objects, ok \in BOOLEAN :
           Ended("insert", Undefined, insert(DBtype, object, ok))
    \/ \E object \in Objects, ok \in BOOLEAN :
           Ended("update", Undefined, update(baseWhere, DBtype, object, ok))
    \/ \E id \in Ids, object \in Objects, ok \in BOOLEAN :
           Ended("updateById", Undefined, updateById(baseWhere, DBtype, id, object, ok))

InitDB ==
    /\ DBtype = ""
    /\ where = Undefined
    /\ fullTextColumns = <<>>
    /\ tree = <<>>
    /\ whereSql = <<>>
    /\ wpc = "idle"
    /\ IdleDB
    /\ IdleBind /\ IdleDDL /\ IdleFresh /\ IdlePlace /\ IdleRepo /\ IdleKV

\* a call of DB.connect is in progress while it awaits the connection or DB.ensure
InProgress(c) == connects[c].pc \in {"connecting", "ensuring"}

\* DB.connect(config, schemas, ensure) up to its first await
Connect(c, type, ss, ens) ==
    /\ connects[c].pc = "idle"
    /\ \A d \in 1..(c - 1) : connects[d].pc # "idle"
    /\ DBschemas' = Registered(ss)
    /\ IF DBclient # NoClient
       THEN /\ connects' = [connects EXCEPT ![c] = ConnectReturned(DBclient.id)]
            /\ UNCHANGED <<DBtype, overlapped>>
       ELSE /\ DBtype' = type
            /\ connects' = [connects EXCEPT ![c] = [pc |-> "connecting", type |-> type, ensure |-> ens,
                                                   returned |-> 0]]
            /\ overlapped' = (overlapped \/ \E d \in DOMAIN connects : connects[d].pc = "connecting")
    /\ UNCHANGED <<DBclient, nativeClients, DBrepositories, instances, handed>>
    /\ UNCHANGED <<where, fullTextColumns, tree, whereSql, wpc>>
    /\ UNCHANGED <<bindVars, ddlVars, freshVars, placeVars, repoVars, kvVars>>

\* connect(config) of client.ts resolves: DB.client = await connect(config),
\* and the call returns DB.client unless it goes on to await DB.ensure()
Connected(c) ==
    /\ connects[c].pc = "connecting"
    /\ nativeClients' = nativeClients + 1
    /\ DBclient' = Client(nativeClients + 1, connects[c].type)
    /\ connects' = [connects EXCEPT ![c] = IF connects[c].ensure THEN [@ EXCEPT !.pc = "ensuring"]
                                           ELSE ConnectReturned(nativeClients + 1)]
    /\ UNCHANGED <<DBtype, DBschemas, DBrepositories, instances, handed, overlapped>>
    /\ UNCHANGED <<where, fullTextColumns, tree, whereSql, wpc>>
    /\ UNCHANGED <<bindVars, ddlVars, freshVars, placeVars, repoVars, kvVars>>

\* connect(config) of client.ts rejects: the server refuses the connection
Refused(c) ==
    /\ connects[c].pc = "connecting"
    /\ connects' = [connects EXCEPT ![c] = ConnectRejected]
    /\ UNCHANGED <<DBtype, DBclient, nativeClients, DBschemas, DBrepositories, instances, handed, overlapped>>
    /\ UNCHANGED <<where, fullTextColumns, tree, whereSql, wpc>>
    /\ UNCHANGED <<bindVars, ddlVars, freshVars, placeVars, repoVars, kvVars>>

\* await DB.ensure() ends: the call returns DB.client, or throws when the query failed
EnsureEnded(c, ok) ==
    /\ connects[c].pc = "ensuring"
    /\ connects' = [connects EXCEPT ![c] = IF ok THEN ConnectReturned(DBclient.id) ELSE ConnectRejected]
    /\ UNCHANGED <<DBtype, DBclient, nativeClients, DBschemas, DBrepositories, instances, handed, overlapped>>
    /\ UNCHANGED <<where, fullTextColumns, tree, whereSql, wpc>>
    /\ UNCHANGED <<bindVars, ddlVars, freshVars, placeVars, repoVars, kvVars>>

\* DB.getRepository(target)
GetRepository(target) ==
    LET r == getRepository(DBrepositories, DBschemas, target, instances + 1)
        made == r.repository.id = instances + 1
    IN /\ made => instances < MaxRepositories
       /\ DBrepositories' = r.repositories
       /\ instances' = IF made THEN instances + 1 ELSE instances
       /\ handed' = handed \cup {[target |-> target, id |-> r.repository.id, table |-> r.repository.table]}
       /\ UNCHANGED <<DBtype, DBclient, nativeClients, DBschemas, connects, overlapped>>
       /\ UNCHANGED <<where, fullTextColumns, tree, whereSql, wpc>>
       /\ UNCHANGED <<bindVars, ddlVars, freshVars, placeVars, repoVars, kvVars>>

NextDB ==
    \/ \E c \in 1..MaxConnects, type \in ConfigTypes, ss \in SchemaLists, ens \in BOOLEAN :
           Connect(c, type, ss, ens)
    \/ \E c \in 1..MaxConnects : Connected(c)
    \/ \E c \in 1..MaxConnects : Refused(c)
    \/ \E c \in 1..MaxConnects, ok \in BOOLEAN : EnsureEnded(c, ok)

\* the process after a first DB.connect has returned its client
InitRepositories ==
    /\ DBtype \in ConfigTypes
    /\ where = Undefined
    /\ fullTextColumns = <<>>
    /\ tree = <<>>
    /\ whereSql = <<>>
    /\ wpc = "idle"
    /\ DBclient = Client(1, DBtype)
    /\ nativeClients = 1
    /\ DBschemas \in {Registered(ss) : ss \in SchemaLists}
    /\ DBrepositories = [k \in Targets \cup {ObjectClass} |-> NoRepository]
    /\ connects = [c \in 1..MaxConnects |-> NoConnect]
    /\ instances = 0
    /\ handed = {}
    /\ overlapped = FALSE
    /\ IdleBind /\ IdleDDL /\ IdleFresh /\ IdlePlace /\ IdleRepo /\ IdleKV

\* repositories are asked for, and DB.connect is called again with other schemas
NextRepositories ==
    \/ \E target \in Targets : GetRepository(target)
    \/ \E c \in 1..MaxConnects, type \in ConfigTypes, ss \in SchemaLists, ens \in BOOLEAN :
           Connect(c, type, ss, ens)

InitKV ==
    /\ IdleKV
    /\ IdleWhere /\ IdleBind /\ IdleDDL /\ IdleFresh /\ IdlePlace /\ IdleRepo /\ IdleDB

\* repo.insert(object, debug, check) up to its first await; the repository is
\* new KV(Post, ["title"]), so that the key of an object is its title
Insert(i, title, id, check) ==
    /\ inserts[i].pc = "idle"
    /\ \A j \in 1..(i - 1) : inserts[j].pc # "idle"
    /\ inserts' = [inserts EXCEPT ![i] = [NoInsert EXCEPT !.title = title, !.id = id, !.given = id # 0,
                                              !.pc = IF check THEN "get"
                                                     ELSE IF id = 0 THEN "auto" ELSE "set"]]
    /\ UNCHANGED <<kvAuto, kvEntries>>
    /\ UNCHANGED <<whereVars, bindVars, ddlVars, freshVars, placeVars, repoVars, dbVars>>

\* await kv.get(key) of insert: the call throws when the key has a value
GetKey(i) ==
    /\ inserts[i].pc = "get"
    /\ inserts' = [inserts EXCEPT ![i].pc = IF kvEntries[inserts[i].title] # 0 THEN "failed"
                                           ELSE IF inserts[i].id = 0 THEN "auto" ELSE "set"]
    /\ UNCHANGED <<kvAuto, kvEntries>>
    /\ UNCHANGED <<whereVars, bindVars, ddlVars, freshVars, placeVars, repoVars, dbVars>>

\* await kv.get(key) of #auto
AutoGet(i) ==
    /\ inserts[i].pc = "auto"
    /\ inserts' = [inserts EXCEPT ![i].auto = kvAuto, ![i].pc = "commit"]
    /\ UNCHANGED <<kvAuto, kvEntries>>
    /\ UNCHANGED <<whereVars, bindVars, ddlVars, freshVars, placeVars, repoVars, dbVars>>

\* const incr = (auto.value ?? 0) + 1; await kv.atomic()...commit(); return incr:
\* the result of the commit is not read
AutoCommit(i) ==
    LET incr == inserts[i].auto.value + 1
    IN /\ inserts[i].pc = "commit"
       /\ kvAuto' = commit(kvAuto, inserts[i].auto, incr)
       /\ inserts' = [inserts EXCEPT ![i].id = incr, ![i].pc = "set",
                                     ![i].ok = (kvAuto.versionstamp = inserts[i].auto.versionstamp)]
       /\ UNCHANGED kvEntries
       /\ UNCHANGED <<whereVars, bindVars, ddlVars, freshVars, placeVars, repoVars, dbVars>>

\* await kv.set(key, object); return object
SetKey(i) ==
    /\ inserts[i].pc = "set"
    /\ kvEntries' = [kvEntries EXCEPT ![inserts[i].title] = inserts[i].id]
    /\ inserts' = [inserts EXCEPT ![i].pc = "done"]
    /\ UNCHANGED kvAuto
    /\ UNCHANGED <<whereVars, bindVars, ddlVars, freshVars, placeVars, repoVars, dbVars>>

NextKV ==
    \/ \E i \in 1..MaxInserts, title \in Titles, id \in GivenIds, check \in BOOLEAN : Insert(i, title, id, check)
    \/ \E i \in 1..MaxInserts : GetKey(i)
    \/ \E i \in 1..MaxInserts : AutoGet(i)
    \/ \E i \in 1..MaxInserts : AutoCommit(i)
    \/ \E i \in 1..MaxInserts : SetKey(i)

-----------------------------------------------------------------------------
(* Specifications *)

vars == <<whereVars, bindVars, ddlVars, freshVars, placeVars, repoVars, dbVars, kvVars>>

SpecWhere == InitWhere /\ [][NextWhere]_vars

SpecBind == InitBind /\ [][NextBind]_vars

SpecDDL == InitDDL /\ [][NextDDL]_vars

SpecLoose == InitLoose /\ [][NextDDL]_vars

SpecFresh == InitFresh /\ [][NextFresh]_vars

SpecPlace == InitPlace /\ [][NextPlace]_vars

SpecRepo == InitRepo /\ [][NextRepo]_vars

SpecDB == InitDB /\ [][NextDB]_vars

SpecRepositories == InitRepositories /\ [][NextRepositories]_vars

SpecKV == InitKV /\ [][NextKV]_vars

-----------------------------------------------------------------------------
(* Claims about Repository._where *)

WhereDone == wpc = "done" /\ ~ where.undef

IsAndOr(e) == e.name \in {"and", "or"}

\* the comparison symbols the specification gives for gt/gte/lt/lte
ComparisonSymbol == [gt |-> ">", gte |-> ">=", lt |-> "<", lte |-> "<="]

IsShorthand(e) == ~ IsAndOr(e) /\ e.name # "$sql" /\ e.value.kind = "prim" /\ e.value.v # "null"
IsComparison(e) ==
    /\ ~ IsAndOr(e) /\ e.name # "$sql" /\ e.value.kind = "pred"
    /\ Len(e.value.ops) = 1
    /\ e.value.ops[1].key \in DOMAIN ComparisonSymbol
    /\ ~ e.value.ops[1].isArr

\* and/or, if present, is the last key and every other key is a non-null
\* shorthand or a gt/gte/lt/lte predicate
C1Shape(es) ==
    /\ Len(es) >= 1
    /\ \A i \in 1..Len(es) :
          \/ IsShorthand(es[i])
          \/ IsComparison(es[i])
          \/ IsAndOr(es[i]) /\ i = Len(es)

\* the conjunct and the arguments the specification gives for one key; the
\* children of and/or are compiled on their own, each with a fresh array
C1Conjunct(e, ftc, dbType) ==
    IF IsAndOr(e)
    THEN LET kids == e.value.kids
             r == [i \in 1..Len(kids) |-> _where(kids[i], <<>>, ftc, dbType)]
         IN [sql |-> <<"(">> \o JoinTok([i \in 1..Len(kids) |-> r[i].sql],
                                       IF e.name = "and" THEN "AND" ELSE "OR") \o <<")">>,
             args |-> Flatten([i \in 1..Len(kids) |-> r[i].tree])]
    ELSE IF IsComparison(e)
    THEN [sql |-> <<e.name, ComparisonSymbol[e.value.ops[1].key], "?">>,
          args |-> <<e.value.ops[1].v>>]
    ELSE [sql |-> <<e.name, "=", "?">>, args |-> <<e.value.v>>]

\* C1: for a condition whose and/or key, if any, is the last key, _where
\* returns the " AND "-join of one conjunct per key in insertion order
\* (col = ? for a non-null shorthand, col <op> ? for gt/gte/lt/lte, the
\* parenthesised connective-join of the compiled children for and/or) and the
\* argument list holds the values in placeholder order.
C1_ConjunctPerKey ==
    (WhereDone /\ C1Shape(where.entries)) =>
        LET es == where.entries
            c == [i \in 1..Len(es) |-> C1Conjunct(es[i], fullTextColumns, DBtype)]
        IN /\ whereSql = JoinTok([i \in 1..Len(es) |-> c[i].sql], "AND")
           /\ tree = Flatten([i \in 1..Len(es) |-> c[i].args])

\* {b: 2, or: [{x: "X"}, {d: {lte: now}}]} compiled to
\* b = ? AND (x = ? OR d <= ?) with ["2", "X", now]
C1_Witness ==
    /\ WhereDone
    /\ where.entries = <<Entry("b", Prim("2")),
                         Entry("or", List(<<Cond(<<Entry("x", Prim("X"))>>),
                                            Cond(<<Entry("d", Pred(<<Op("lte", "now")>>))>>)>>))>>
    /\ whereSql = <<"b", "=", "?", "AND", "(", "x", "=", "?", "OR", "d", "<=", "?", ")">>
    /\ tree = <<"2", "X", "now">>

IsNullShorthand(e) == ~ IsAndOr(e) /\ e.name # "$sql" /\ e.value.kind = "prim" /\ e.value.v = "null"
IsNullOp(e, k) ==
    /\ ~ IsAndOr(e) /\ e.name # "$sql" /\ e.value.kind = "pred"
    /\ Len(e.value.ops) = 1
    /\ e.value.ops[1] = Op(k, "null")

\* C2: {c: null} and {c: {eq: null}} compile to c IS ?, {c: {neq: null}}
\* compiles to c IS NOT ?, each with the argument null; such a key is never
\* rendered with = or !=.
C2_NullIsRenderedWithIs ==
    (/\ WhereDone
     /\ Len(where.entries) >= 1
     /\ \A i \in 1..Len(where.entries) :
           LET e == where.entries[i]
           IN IsNullShorthand(e) \/ IsNullOp(e, "eq") \/ IsNullOp(e, "neq")) =>
        LET es == where.entries
        IN /\ whereSql = JoinTok([i \in 1..Len(es) |->
                             <<es[i].name, IF IsNullOp(es[i], "neq") THEN "IS NOT" ELSE "IS", "?">>], "AND")
           /\ tree = [i \in 1..Len(es) |-> "null"]

\* {a: {neq: null}, b: null} compiled to a IS NOT ? AND b IS ?
C2_Witness ==
    /\ WhereDone
    /\ where.entries = <<Entry("a", Pred(<<Op("neq", "null")>>)), Entry("b", Prim("null"))>>
    /\ whereSql = <<"a", "IS NOT", "?", "AND", "b", "IS", "?">>
    /\ tree = <<"null", "null">>

IsSingleOp(e, k) ==
    /\ ~ IsAndOr(e) /\ e.name # "$sql" /\ e.value.kind = "pred"
    /\ Len(e.value.ops) = 1
    /\ e.value.ops[1].key = k
    /\ ~ e.value.ops[1].isArr

\* C8: a match predicate with a truthy term compiles to the MATCH ... AGAINST
\* form with the argument term* on MySQL with full-text columns, to the
\* TO_TSVECTOR ... TO_TSQUERY form on PostgreSQL with full-text columns, and
\* to column LIKE ? with the argument %term% on SQLite (whatever the
\* full-text columns) or with no full-text columns; always one expression and
\* one argument.
C8_MatchCompilesToOneExpression ==
    (/\ WhereDone
     /\ Len(where.entries) = 1
     /\ IsSingleOp(where.entries[1], "match")
     /\ Truthy(where.entries[1].value.ops[1].v)) =>
        LET e == where.entries[1]
            term == e.value.ops[1].v
            cols == JoinTok([i \in 1..Len(fullTextColumns) |-> <<fullTextColumns[i]>>], ",")
        IN IF DBtype = "sqlite" \/ fullTextColumns = <<>>
           THEN /\ whereSql = <<e.name, "LIKE", "?">>
                /\ tree = <<"%" \o term \o "%">>
           ELSE IF DBtype = "mysql"
           THEN /\ whereSql = <<"MATCH", "(">> \o cols \o <<")", "AGAINST", "(", "?", "IN BOOLEAN MODE", ")">>
                /\ tree = <<term \o "*">>
           ELSE /\ whereSql = <<"TO_TSVECTOR", "(", "'english'", ",">> \o cols \o <<")", "@@", "TO_TSQUERY", "(", "?", ")">>
                /\ Len(tree) = 1

\* C9: {c: {contains: v}} compiles to ? MEMBER OF (c) with the argument v on
\* MySQL, to JSONB_EXISTS(CAST(c AS JSONB), ?) with the argument v on
\* PostgreSQL and to c LIKE ? with the argument %v% on SQLite.
C9_ContainsPerDialect ==
    (/\ WhereDone
     /\ Len(where.entries) = 1
     /\ IsSingleOp(where.entries[1], "contains")) =>
        LET e == where.entries[1]
            v == e.value.ops[1].v
        IN IF DBtype = "mysql"
           THEN whereSql = <<"?", "MEMBER OF", "(", e.name, ")">> /\ tree = <<v>>
           ELSE IF DBtype = "postgres"
           THEN /\ whereSql = <<"JSONB_EXISTS", "(", "CAST", "(", e.name, "AS", "JSONB", ")", ",", "?", ")">>
                /\ tree = <<v>>
           ELSE whereSql = <<e.name, "LIKE", "?">> /\ tree = <<"%" \o v \o "%">>

\* C10: an and/or node with zero children compiles to TRUE and contributes
\* no arguments; an empty or undefined condition compiles to TRUE with no
\* arguments.
C10_EmptyCompilesToTrue ==
    (/\ wpc = "done"
     /\ \/ where.undef
        \/ where.entries = <<>>
        \/ /\ Len(where.entries) = 1
           /\ IsAndOr(where.entries[1])
           /\ where.entries[1].value.kids = <<>>) =>
        whereSql = <<"TRUE">> /\ tree = <<>>


-----------------------------------------------------------------------------
(* Claims about DB._transformParameters *)

\* the names the template references
Referenced(tpl) == {tpl[i].s : i \in {j \in 1..Len(tpl) : tpl[j].p}}

\* the values bound to one piece of the template, in order (none for text)
BoundValues(piece, obj) ==
    IF ~ piece.p THEN <<>>
    ELSE IF obj[piece.s].kind = "array" THEN obj[piece.s].arr
    ELSE IF obj[piece.s].kind = "scalar" THEN <<obj[piece.s].v>>
    ELSE <<"undefined">>

\* the text that stands for one piece: the text itself, one ? for a scalar, N
\* comma-joined ? for an array of length N
BoundText(piece, obj) ==
    IF ~ piece.p THEN <<piece.s>>
    ELSE IF obj[piece.s].kind = "array"
    THEN JoinTok([k \in 1..Len(obj[piece.s].arr) |-> <<"?">>], ",")
    ELSE <<"?">>

\* C3: when the argument map defines every referenced name, each :name is
\* replaced by one ? (N comma-joined ? for an array of length N) and the
\* output arguments are the left-to-right concatenation of the bound values,
\* one entry per occurrence; unreferenced names of the map add nothing.
C3_BindNamedInOccurrenceOrder ==
    (/\ bindCalls >= 1
     /\ \A n \in Referenced(sql) : objectParameters[n].kind \in {"scalar", "array"}) =>
        /\ ~ bindErr
        /\ bindSql = Flatten([i \in 1..Len(sql) |-> BoundText(sql[i], objectParameters)])
        /\ arrayParameters = Flatten([i \in 1..Len(sql) |-> BoundValues(sql[i], objectParameters)])

\* ":a x = :a" with {a: [1, 2], b: 2}: a repeated array name, b unreferenced
C3_Witness ==
    /\ bindCalls >= 1
    /\ sql = <<Param("a"), Lit("x = "), Param("a")>>
    /\ objectParameters = [n \in ParamNames |-> IF n = "a" THEN Array(<<"1", "2">>) ELSE Scalar("2")]
    /\ bindSql = <<"?", ",", "?", "x = ", "?", ",", "?">>
    /\ arrayParameters = <<"1", "2", "1", "2">>

\* C4: with a referenced name absent from the map, strict mode (safe unset)
\* throws and permissive mode emits ? and appends undefined; every call with
\* the same template, map and output array gives the result of the first
\* call on a fresh array: nothing accumulates.
C4_MissingParameterIdempotent ==
    (bindCalls >= 1) =>
        /\ (\E n \in Referenced(sql) : objectParameters[n].kind = "absent") =>
              IF safe
              THEN /\ ~ bindErr
                   /\ bindSql = Flatten([i \in 1..Len(sql) |-> BoundText(sql[i], objectParameters)])
                   /\ arrayParameters = Flatten([i \in 1..Len(sql) |-> BoundValues(sql[i], objectParameters)])
              ELSE /\ bindErr
                   /\ bindSql = <<>>
        /\ LET first == _transformParameters(sql, objectParameters, <<>>, safe)
           IN /\ bindSql = first.sql
              /\ bindErr = first.err
              /\ arrayParameters = first.arr

\* "x = :a x = :b" with {a: 5} in strict mode, called twice: both calls throw
\* and leave [5] in the array
C4_Witness ==
    /\ bindCalls = 2
    /\ ~ safe
    /\ sql = <<Param("a"), Lit("x = "), Param("b")>>
    /\ objectParameters = [n \in ParamNames |-> IF n = "a" THEN Scalar("5") ELSE Absent]
    /\ bindErr
    /\ arrayParameters = <<"5">>

-----------------------------------------------------------------------------
(* Claims about DDL.createTable *)

DDLDone == dpc = "done"

Positions(fs) == [i \in 1..Len(fs) |-> i]

\* a clause of the table body starts with the pad, after the opening
\* parenthesis or after the comma that ends the clause before it
IsClauseStart(fs, p) ==
    /\ p > 1 /\ p < Len(fs)
    /\ fs[p] = "    "
    /\ fs[p - 1] \in {" (\n", ",\n"}

\* a clause that is neither a foreign key nor a check is a column clause
IsColumnClause(fs, p) == IsClauseStart(fs, p) /\ fs[p + 1] \notin {"CONSTRAINT ", "CHECK ("}

ColumnClauses(fs) == SelectSeq(Positions(fs), LAMBDA p : IsColumnClause(fs, p))

\* the fragments of the clause that starts at p, its closing fragment included
ClauseAt(fs, p) ==
    LET ends == {e \in p..Len(fs) : fs[e] \in {",\n", "\n);", ")"}}
    IN IF ends = {} THEN SubSeq(fs, p, Len(fs))
       ELSE SubSeq(fs, p, CHOOSE e \in ends : \A g \in ends : e <= g)

Has(fs, f) == \E i \in 1..Len(fs) : fs[i] = f

OneColumnClausePerProperty ==
    LET props == ddlSchema.properties
        at == ColumnClauses(ddlSql)
    IN /\ Len(at) = Len(props)
       /\ \A k \in 1..Len(props) : startsWith(ddlSql[at[k] + 1], props[k].name \o " ")

\* one "\n);" closes the body, after every clause, and no comma or opening
\* parenthesis is left directly before a bare ")"
BodyClosedOnce ==
    LET closes == {i \in 1..Len(ddlSql) : ddlSql[i] = "\n);"}
        starts == {p \in 1..Len(ddlSql) : IsClauseStart(ddlSql, p)}
    IN /\ Cardinality(closes) = 1
       /\ \A i \in closes : \A p \in starts : p < i
       /\ ~ \E i \in 1..(Len(ddlSql) - 1) : ddlSql[i] \in {",\n", " (\n"} /\ ddlSql[i + 1] = ")"

\* the table body gets a clause: a column, a relation outside SQLite, or a
\* constraint of the schema that applies to the dialect
BodyHasClause ==
    \/ Len(ddlSchema.properties) > 0
    \/ Len(ddlSchema.relations) > 0 /\ ddlType # Provider.SQLITE
    \/ \E i \in 1..Len(ddlSchema.constraints) :
           ddlSchema.constraints[i].provider \in {"", ddlType}

AutoIncrementMark == [mysql |-> " AUTO_INCREMENT", sqlite |-> " AUTOINCREMENT", postgres |-> "SERIAL"]

\* C6: on every dialect the clause of an integer column with primaryKey is an
\* auto-increment column (AUTO_INCREMENT on MySQL, AUTOINCREMENT on SQLite,
\* SERIAL on PostgreSQL) and has no DEFAULT, whatever else the column declares.
C6_IntegerKeyAutoIncrementNoDefault ==
    DDLDone =>
        \A k \in 1..Len(ddlSchema.properties) :
            LET c == ddlSchema.properties[k].column
            IN (c.type = "integer" /\ c.primaryKey = "true") =>
                  /\ ~ ddlErr
                  /\ k <= Len(ColumnClauses(ddlSql))
                  /\ LET clause == ClauseAt(ddlSql, ColumnClauses(ddlSql)[k])
                     IN /\ Has(clause, AutoIncrementMark[ddlType])
                        /\ ~ Has(clause, " DEFAULT ")

-----------------------------------------------------------------------------
(* Claims about Schemas.outdated *)

\* C7: in any sequence of generate, modify-source and check events, a check
\* answers false while no modification followed the last generation and true
\* after one did.
C7_CheckTellsModification ==
    (schemaId.def /\ answer \in {"true", "false"}) => (answer = "true" <=> modifiedSince)

-----------------------------------------------------------------------------
(* Claims about DB._transformPlaceholders *)

PlaceDone == ppc = "done"

CountOf(s, c) == Cardinality({i \in 1..Len(s) : CharAt(s, i) = c})

Digits == {"0", "1", "2", "3", "4", "5", "6", "7", "8", "9"}

\* the position after the digits that start at position i
RECURSIVE SkipDigits(_, _)
SkipDigits(s, i) == IF CharAt(s, i) \in Digits THEN SkipDigits(s, i + 1) ELSE i

\* the numbers written after each "$" of s, from left to right
RECURSIVE PlaceholdersFrom(_, _)
PlaceholdersFrom(s, i) ==
    IF i > Len(s) THEN <<>>
    ELSE IF CharAt(s, i) = "$"
         THEN <<SubSeq(s, i + 1, SkipDigits(s, i + 1) - 1)>> \o PlaceholdersFrom(s, SkipDigits(s, i + 1))
         ELSE PlaceholdersFrom(s, i + 1)

\* C11: DB._transformPlaceholders replaces the k-th "?" of its input, counted
\* from the left, with "$k": the result holds no "?", and its placeholders are
\* $1..$n in this order, n being the number of "?" of the input.
C11_MarksNumberedInOrder ==
    PlaceDone =>
        /\ CountOf(placeOut, "?") = 0
        /\ PlaceholdersFrom(placeOut, 1) = [k \in 1..CountOf(placeSql, "?") |-> ToString(k)]

\* the example of the specification
C11_Witness ==
    /\ PlaceDone
    /\ placeSql = "a = ? AND b = ?"
    /\ placeOut = "a = $1 AND b = $2"

ContainsAt(s, t, i) == i + Len(t) - 1 <= Len(s) /\ SubSeq(s, i, i + Len(t) - 1) = t

Contains(s, t) == \E i \in 1..Len(s) : ContainsAt(s, t, i)

\* C12: DB._transformPlaceholders strips every "ORDER BY NULL" of its input,
\* wherever it stands, so that the text it returns never holds the clause.
C12_NoOrderByNullReturned ==
    PlaceDone => ~ Contains(placeOut, OrderByNull)

-----------------------------------------------------------------------------
(* Claims about DDL.createTable with an invalid schema or dialect *)

UnknownType == \E k \in 1..Len(ddlSchema.properties) : ddlSchema.properties[k].column.type \notin DOMAIN dataTypes

UnknownDialect == ddlType \notin Providers

HasUndefined(fs) == \E i \in 1..Len(fs) : Contains(fs[i], "undefined")

\* C13: DDL.createTable called with a column of unknown type, or with an
\* unknown dialect, throws and returns no text.
C13_InvalidSchemaThrows ==
    (DDLDone /\ (UnknownType \/ UnknownDialect)) => ddlErr /\ ddlSql = <<>>

\* what holds of C13: a column of unknown type throws when the column has no
\* maxLength below textWidth and is not turned into TEXT by MySQL
C13_UnknownTypeWithoutLengthThrows ==
    (DDLDone /\ ddlSchema.properties[1].column.type = "money" /\ ~ ddlSchema.properties[1].column.maxLength.def)
        => ddlErr /\ ddlSql = <<>>

\* what C13 excludes and happens: text with "undefined" in it
C13_UndefinedWritten ==
    /\ DDLDone /\ UnknownType /\ ~ ddlErr
    /\ Concat(ddlSql) = "CREATE TABLE IF NOT EXISTS t (\n    id undefined(64)\n);"

-----------------------------------------------------------------------------
(* Claims about the dialect of a compile call *)

\* C14: the result of Repository._where (text and arguments) is a function of
\* the arguments of the call (where, tree, fullTextColumns) only: whatever the
\* process-wide DB.type is, the call returns the same text and arguments.
C14_WhereIndependentOfProcessState ==
    WhereDone =>
        \A d \in Providers :
            LET r == _where(where, <<>>, fullTextColumns, d)
            IN r.sql = whereSql /\ r.tree = tree

-----------------------------------------------------------------------------
(* Claims about predicates with several operator keys *)

IsSeveralOps(e) ==
    /\ ~ IsAndOr(e) /\ e.name # "$sql" /\ e.value.kind = "pred"
    /\ Len(e.value.ops) >= 2
    /\ \A i \in 1..Len(e.value.ops) : e.value.ops[i].key \in OperatorKeys

LastOp(e) == e.value.ops[Len(e.value.ops)]

\* the entry with the last operator key of its predicate alone
LastOnly(e) == IF IsSeveralOps(e) THEN Entry(e.name, Pred(<<LastOp(e)>>)) ELSE e

\* the earlier operator keys of a predicate contribute neither text nor
\* arguments: the condition compiles as it does without them
EarlierKeysContributeNothing ==
    LET es == where.entries
        r == _where(Cond([i \in 1..Len(es) |-> LastOnly(es[i])]), <<>>, fullTextColumns, DBtype)
    IN whereSql = r.sql /\ tree = r.tree

\* the text is one comparison and the arguments are the one group of the
\* last operator key
OneComparisonOneGroup ==
    LET last == LastOp(where.entries[1])
    IN /\ whereSql # <<"TRUE">>
       /\ ~ \E i \in 1..Len(whereSql) : whereSql[i] = "AND"
       /\ Len(tree) = (IF last.isArr THEN Len(last.arr) ELSE 1)
       /\ last.key # "match" => tree = (IF last.isArr THEN last.arr ELSE <<last.v>>)

SeveralOpsAlone == Len(where.entries) = 1 /\ IsSeveralOps(where.entries[1])

\* C19 as stated: a predicate with several operator keys compiles to exactly
\* one comparison and one argument group, those of its last key; the earlier
\* keys contribute neither text nor arguments.
C19_OnlyLastKeyHonored ==
    WhereDone =>
        /\ EarlierKeysContributeNothing
        /\ SeveralOpsAlone => OneComparisonOneGroup

\* C19 amended: the earlier keys contribute neither text nor arguments, and the
\* predicate compiles to exactly one comparison and one argument group when
\* its last key is not match.
C19_OnlyLastKeyHonoredButMatch ==
    WhereDone =>
        /\ EarlierKeysContributeNothing
        /\ (SeveralOpsAlone /\ LastOp(where.entries[1]).key # "match") => OneComparisonOneGroup

\* {a: {gt: 1, lt: 2}} compiled to a < ? with ["2"]
C19_Witness ==
    /\ WhereDone
    /\ where.entries = <<Entry("a", Pred(<<Op("gt", "1"), Op("lt", "2")>>))>>
    /\ whereSql = <<"a", "<", "?">>
    /\ tree = <<"2">>

-----------------------------------------------------------------------------
(* Claims about the repository *)

\* the methods that read or change rows under a WHERE clause
RestrictedMethods ==
    {"all", "count", "find", "findOne", "findById", "delete", "deleteById", "update", "updateById"}

\* the number of "(" minus the number of ")" before position p
Depth(text, p) ==
    Cardinality({i \in 1..(p - 1) : text[i] = "("}) - Cardinality({i \in 1..(p - 1) : text[i] = ")"})

\* the placeholders of the first p tokens; a token holds one at most
Marks(text, p) == Cardinality({i \in 1..p : Contains(text[i], "?")})

\* the predicate col = ? with the argument v is a conjunct of the WHERE
\* clause of the statement: it stands between WHERE or AND and AND, ORDER BY
\* or the end of the text, outside every parenthesis, and v is the parameter
\* of its placeholder
HasConjunct(stmt, col, v) ==
    \E p \in 2..(Len(stmt.sql) - 2) :
        /\ \E q \in 1..(p - 1) : stmt.sql[q] = "WHERE"
        /\ stmt.sql[p - 1] \in {"WHERE", "AND"}
        /\ SubSeq(stmt.sql, p, p + 2) = <<col, "=", "?">>
        /\ p + 3 <= Len(stmt.sql) => stmt.sql[p + 3] \in {"AND", "ORDER BY"}
        /\ Depth(stmt.sql, p) = 0
        /\ Marks(stmt.sql, p + 2) <= Len(stmt.parameters)
        /\ stmt.parameters[Marks(stmt.sql, p + 2)] = v

BaseWhereIn(stmt) ==
    \A i \in 1..Len(baseWhere.entries) :
        HasConjunct(stmt, baseWhere.entries[i].name, baseWhere.entries[i].value.v)

\* C15: once baseWhere is set, every statement issued by all, count, find,
\* findOne, findById, delete, deleteById, update and updateById has the
\* predicates of baseWhere as conjuncts of its WHERE clause, with their
\* arguments bound, whatever condition the caller passes.
C15_BaseWhereInEveryStatement ==
    (called \in RestrictedMethods /\ ~ baseWhere.undef) =>
        \A i \in 1..Len(statements) : BaseWhereIn(statements[i])

\* what holds of C15: the same when the caller's condition has no and/or key
C15_BaseWhereInStatementsWithoutAndOr ==
    (/\ called \in RestrictedMethods /\ ~ baseWhere.undef
     /\ \A i \in 1..Len(callWhere.entries) : ~ IsAndOr(callWhere.entries[i])) =>
        \A i \in 1..Len(statements) : BaseWhereIn(statements[i])

\* the events and the database call of a call that reached the database
EventsAround(before, after) ==
    \/ trace = <<before, "execute", after>> /\ ~ thrown
    \/ trace = <<before, "execute">> /\ thrown

\* C16: each of insert, update, updateById, deleteById and delete dispatches
\* its before event, then executes its statement, then dispatches its after
\* event once the statement has completed; no after event without the before
\* event of the same call.
C16_EventsAroundEveryChange ==
    /\ (called = "insert" /\ statements # <<>>) => EventsAround(Hook.BEFORE_INSERT, Hook.AFTER_INSERT)
    /\ (called \in {"update", "updateById"} /\ statements # <<>>)
           => EventsAround(Hook.BEFORE_UPDATE, Hook.AFTER_UPDATE)
    /\ (called \in {"delete", "deleteById"} /\ statements # <<>>)
           => EventsAround(Hook.BEFORE_DELETE, Hook.AFTER_DELETE)

\* what holds of C16: the same without delete(where)
C16_EventsAroundChangesButDelete ==
    /\ (called = "insert" /\ statements # <<>>) => EventsAround(Hook.BEFORE_INSERT, Hook.AFTER_INSERT)
    /\ (called \in {"update", "updateById"} /\ statements # <<>>)
           => EventsAround(Hook.BEFORE_UPDATE, Hook.AFTER_UPDATE)
    /\ (called = "deleteById" /\ statements # <<>>) => EventsAround(Hook.BEFORE_DELETE, Hook.AFTER_DELETE)

-----------------------------------------------------------------------------
(* Claims about the clauses of DDL.createTable *)

ColumnOf(k) == ddlSchema.properties[k].column

IsRequired(k) == ddlSchema.properties[k].name \in ddlSchema.required

ColumnClause(k) == ClauseAt(ddlSql, ColumnClauses(ddlSql)[k])

\* C17: the clause of a column has NOT NULL iff primaryKey of the column is
\* true or its name is in required; a column that is neither has no NOT NULL
\* and no PRIMARY KEY.
C17_NotNullIffKeyOrRequired ==
    (DDLDone /\ ~ ddlErr) =>
        \A k \in 1..Len(ddlSchema.properties) :
            LET key == ColumnOf(k).primaryKey = "true"
            IN /\ Has(ColumnClause(k), " NOT NULL") <=> (key \/ IsRequired(k))
               /\ ~ (key \/ IsRequired(k)) => ~ Has(ColumnClause(k), " PRIMARY KEY")

\* what holds of C17: the same with "primaryKey is present" for "primaryKey
\* is true"
C17_NotNullIffKeyPresentOrRequired ==
    (DDLDone /\ ~ ddlErr) =>
        \A k \in 1..Len(ddlSchema.properties) :
            LET key == ColumnOf(k).primaryKey # "undefined"
            IN /\ Has(ColumnClause(k), " NOT NULL") <=> (key \/ IsRequired(k))
               /\ ~ (key \/ IsRequired(k)) => ~ Has(ColumnClause(k), " PRIMARY KEY")

\* C18: the clause of a column with `as` set has the generated-column clause
\* and no DEFAULT, whatever default and dateOn of the column and whatever the
\* dialect.
C18_GeneratedColumnWithoutDefault ==
    (DDLDone /\ ~ ddlErr) =>
        \A k \in 1..Len(ddlSchema.properties) :
            asTruthy(ColumnOf(k).as) =>
                /\ Has(ColumnClause(k), " GENERATED ALWAYS AS (")
                /\ ~ Has(ColumnClause(k), " DEFAULT ")

\* what holds of C18: a column with `as` set and no dateOn has no DEFAULT
C18_GeneratedColumnWithoutDateOnAndDefault ==
    (DDLDone /\ ~ ddlErr) =>
        \A k \in 1..Len(ddlSchema.properties) :
            (asTruthy(ColumnOf(k).as) /\ ColumnOf(k).dateOn = "") => ~ Has(ColumnClause(k), " DEFAULT ")

IsNamedCheck(fs, p) == IsClauseStart(fs, p) /\ p + 4 <= Len(fs) /\ fs[p + 1] = "CONSTRAINT " /\ fs[p + 4] = "CHECK ("

IsCheckClause(fs, p) == (IsClauseStart(fs, p) /\ fs[p + 1] = "CHECK (") \/ IsNamedCheck(fs, p)

CheckClauses(fs) == SelectSeq(Positions(fs), LAMBDA p : IsCheckClause(fs, p))

DeclaresCheck(c) == c.constraint # <<>> \/ c.minimum.kind # "undefined" \/ c.maximum.kind # "undefined"

Applies(c) == c.provider = "" \/ c.provider = ddlType

DeclaredChecks ==
    Cardinality({k \in 1..Len(ddlSchema.properties) : DeclaresCheck(ColumnOf(k))})
    + Cardinality({i \in 1..Len(ddlSchema.constraints) : Applies(ddlSchema.constraints[i])})

\* C20: the table body has one CHECK clause for each column that declares a
\* constraint, a minimum or a maximum (0 included) and one for each entry of
\* schema.constraints without provider or with the provider of the dialect;
\* each is named, except on SQLite where none is; the clauses stand in
\* ascending order of their text.
C20_CheckClauses ==
    (DDLDone /\ ~ ddlErr) =>
        LET at == CheckClauses(ddlSql)
        IN /\ Len(at) = DeclaredChecks
           /\ \A i \in 1..Len(at) : IsNamedCheck(ddlSql, at[i]) <=> ddlType # Provider.SQLITE
           /\ \A i \in 1..(Len(at) - 1) :
                  ~ StringLess(Concat(ClauseAt(ddlSql, at[i + 1])), Concat(ClauseAt(ddlSql, at[i])))

-----------------------------------------------------------------------------
(* Claims about the foreign keys of DDL.createTable *)

IsForeignKey(fs, p) ==
    IsClauseStart(fs, p) /\ p + 3 <= Len(fs) /\ fs[p + 1] = "CONSTRAINT " /\ fs[p + 3] = " FOREIGN KEY ("

ForeignKeys(fs) == SelectSeq(Positions(fs), LAMBDA p : IsForeignKey(fs, p))

Action(a) == MapChars(a, toUpperCaseAndBlank)

\* the clause the specification gives for the relation
ForeignKeyClause(tableName, r) ==
    <<"    ", "CONSTRAINT ", tableName \o "_" \o r.name, " FOREIGN KEY (", r.relation.join, ") REFERENCES ",
      r.relation.target, " (id)">>
    \o (IF r.relation.delete # "" THEN <<" ON DELETE " \o Action(r.relation.delete)>> ELSE <<>>)
    \o (IF r.relation.update # "" THEN <<" ON UPDATE " \o Action(r.relation.update)>> ELSE <<>>)

\* the clause without the fragment that ends it
Open(clause) == SubSeq(clause, 1, Len(clause) - 1)

\* C21: on MySQL and PostgreSQL the table body has, for each relation of the
\* schema, one clause CONSTRAINT <table>_<name> FOREIGN KEY (<join>)
\* REFERENCES <target> (id) with ON DELETE <action> for its delete action
\* and ON UPDATE <action> for its update action; on SQLite it has none.
C21_ForeignKeyPerRelation ==
    (DDLDone /\ ~ ddlErr) =>
        LET at == ForeignKeys(ddlSql)
            rs == ddlSchema.relations
        IN IF ddlType = Provider.SQLITE THEN at = <<>>
           ELSE /\ Len(at) = Len(rs)
                /\ \A i \in 1..Len(rs) :
                       Open(ClauseAt(ddlSql, at[i])) = ForeignKeyClause(ddlSchema.table, rs[i])

\* what holds of C21: the same for the relations without an update action
C21_ForeignKeyPerRelationWithoutUpdate ==
    (DDLDone /\ ~ ddlErr) =>
        LET at == ForeignKeys(ddlSql)
            rs == ddlSchema.relations
        IN IF ddlType = Provider.SQLITE THEN at = <<>>
           ELSE /\ Len(at) = Len(rs)
                /\ \A i \in 1..Len(rs) :
                       rs[i].relation.update = "" =>
                           Open(ClauseAt(ddlSql, at[i])) = ForeignKeyClause(ddlSchema.table, rs[i])

-----------------------------------------------------------------------------
(* Claims about Repository.delete *)

Unrestricted(stmt) == stmt.sql = <<"DELETE FROM", this_table, "WHERE", "TRUE">>

\* C22: with baseWhere unset, Repository.delete throws before any statement
\* is executed whenever its condition yields no predicate (no condition, the
\* empty object, only skipped predicates): DELETE FROM <table> WHERE TRUE is
\* never handed to the database.
C22_NoUnrestrictedDelete ==
    (called = "delete" /\ baseWhere.undef) =>
        \A i \in 1..Len(statements) : ~ Unrestricted(statements[i])

\* what holds of C22: the call without a condition throws and executes nothing
C22_DeleteWithoutConditionThrows ==
    (called = "delete" /\ callWhere.undef) => thrown /\ statements = <<>> /\ trace = <<>>

-----------------------------------------------------------------------------
(* Claims about the placeholders and the keys of Repository._where *)

NoRawSql == \A i \in 1..Len(where.entries) : where.entries[i].name # "$sql"

Placeholders(text) == Cardinality({i \in 1..Len(text) : text[i] = "?"})

\* C23: for a condition without a $sql entry, whatever DB.type and the
\* full-text columns, the text returned by Repository._where has as many "?"
\* as the call appended arguments.
C23_PlaceholderPerArgument ==
    (WhereDone /\ NoRawSql) => Placeholders(whereSql) = Len(tree)

HasMatch ==
    \E i \in 1..Len(where.entries) :
        LET e == where.entries[i]
        IN e.value.kind = "pred" /\ e.value.ops # <<>> /\ LastOp(e).key = "match"

\* what holds of C23: the same for a condition without a match predicate
C23_PlaceholderPerArgumentWithoutMatch ==
    (WhereDone /\ NoRawSql /\ ~ HasMatch) => Placeholders(whereSql) = Len(tree)


\* every key is a non-null shorthand, a gt/gte/lt/lte predicate or and/or,
\* the and/or key at any place
C24Shape(es) ==
    /\ Len(es) >= 1
    /\ \A i \in 1..Len(es) : IsShorthand(es[i]) \/ IsComparison(es[i]) \/ IsAndOr(es[i])

\* C24: Repository._where returns one conjunct for every key of the condition,
\* whether the key stands before or after an and/or key, with the arguments in
\* the order of the placeholders.
C24_ConjunctPerKeyAroundAndOr ==
    (WhereDone /\ C24Shape(where.entries)) =>
        LET es == where.entries
            c == [i \in 1..Len(es) |-> C1Conjunct(es[i], fullTextColumns, DBtype)]
        IN /\ whereSql = JoinTok([i \in 1..Len(es) |-> c[i].sql], "AND")
           /\ tree = Flatten([i \in 1..Len(es) |-> c[i].args])

-----------------------------------------------------------------------------
(* Claims about Schemas.ensure *)

\* a call of Schemas.ensure that returned
Ensured == ensured.called /\ ensured.returned # "throws"

\* regeneration is needed: no schemas were supplied, or a supplied one is outdated
Needed == ~ ensured.supplied \/ ensured.outdated = "true"

\* C25: Schemas.ensure (and DDL.ensureSchemas) calls the generator, rewrites
\* the schemas file if one is given, and returns the regenerated schemas
\* exactly when no schemas were supplied or a supplied schema is outdated;
\* when every supplied schema is fresh it returns the supplied schemas
\* without calling the generator or writing.
C25_RegeneratesExactlyWhenNeeded ==
    Ensured =>
        /\ ensured.generated <=> Needed
        /\ Needed => ensured.returned = "regenerated" /\ (ensured.schemasFile => ensured.written)
        /\ ~ Needed => ensured.returned = "supplied" /\ ~ ensured.written

\* what the code does: it regenerates exactly when schemas were supplied
\* and every one of them is fresh
C25_RegeneratesExactlyWhenFresh ==
    Ensured =>
        /\ ensured.generated <=> (ensured.supplied /\ ensured.outdated = "false")
        /\ ensured.generated => ensured.returned = "regenerated"
                                /\ (ensured.written <=> ensured.schemasFile)
        /\ ~ ensured.generated => ensured.returned = "supplied" /\ ~ ensured.written

\* the three cases of the claim happen
C25_NoSchemas == Ensured /\ ~ ensured.supplied
C25_Outdated == Ensured /\ ensured.outdated = "true"
C25_Fresh == Ensured /\ ensured.outdated = "false"

-----------------------------------------------------------------------------
(* Claims about the DEFAULT of a column *)

\* the column declares a default, is not generated and has no dateOn
PlainDefault(c) == c.default.kind # "undefined" /\ ~ asTruthy(c.as) /\ c.dateOn = ""

\* the clause has DEFAULT followed by a text that carries the value
HasDefault(clause, cd) ==
    \E i \in 1..(Len(clause) - 1) : clause[i] = " DEFAULT " /\ Contains(clause[i + 1], cd.text)

\* C26: the clause of every column that declares a default, is not generated
\* and has no dateOn has DEFAULT <value> with the declared value, the falsy
\* literals false and 0 included.
C26_DefaultRendered ==
    (DDLDone /\ ~ ddlErr) =>
        \A k \in 1..Len(ddlSchema.properties) :
            PlainDefault(ColumnOf(k)) => HasDefault(ColumnClause(k), ColumnOf(k).default)

\* what holds of C26: the same for the defaults that are truthy
C26_TruthyDefaultRendered ==
    (DDLDone /\ ~ ddlErr) =>
        \A k \in 1..Len(ddlSchema.properties) :
            (PlainDefault(ColumnOf(k)) /\ truthy(ColumnOf(k).default)) =>
                HasDefault(ColumnClause(k), ColumnOf(k).default)

\* a column with the default 0 or false was compiled
C26_FalsyDefault ==
    DDLDone /\ ~ ddlErr
    /\ \E k \in 1..Len(ddlSchema.properties) :
           PlainDefault(ColumnOf(k)) /\ ~ truthy(ColumnOf(k).default)

-----------------------------------------------------------------------------
(* Claims about the CHECK of the bounds of a column *)

\* a CHECK clause of the table body compares the column with the bound
Enforces(name, op, bound) ==
    \E i \in 1..Len(CheckClauses(ddlSql)) :
        LET clause == ClauseAt(ddlSql, CheckClauses(ddlSql)[i])
        IN \E j \in 1..(Len(clause) - 2) :
               clause[j] = name /\ clause[j + 1] = op /\ clause[j + 2] = value(bound)

\* the column has no inline constraint and declares a bound
Bounded(c) == c.constraint = <<>> /\ (c.minimum.kind # "undefined" \/ c.maximum.kind # "undefined")

\* C27: for a column without inline constraint the CHECK of its bounds
\* compares in the right direction: col <= M for a maximum M, col >= m for a
\* minimum m, and both when both are declared.
C27_BoundsEnforced ==
    (DDLDone /\ ~ ddlErr) =>
        \A k \in 1..Len(ddlSchema.properties) :
            LET c == ColumnOf(k)
                name == ddlSchema.properties[k].name
            IN Bounded(c) =>
                   /\ c.maximum.kind # "undefined" => Enforces(name, " <= ", c.maximum)
                   /\ c.minimum.kind # "undefined" => Enforces(name, " >= ", c.minimum)

\* what holds of C27: a minimum other than 0 is enforced when the column has
\* no maximum or the maximum 0
C27_MinimumAloneEnforced ==
    (DDLDone /\ ~ ddlErr) =>
        \A k \in 1..Len(ddlSchema.properties) :
            LET c == ColumnOf(k)
                name == ddlSchema.properties[k].name
            IN (Bounded(c) /\ truthy(c.minimum) /\ ~ truthy(c.maximum)) =>
                   Enforces(name, " >= ", c.minimum)

\* a column with a maximum and a minimum was compiled
C27_BothBounds ==
    DDLDone /\ ~ ddlErr
    /\ \E k \in 1..Len(ddlSchema.properties) :
           Bounded(ColumnOf(k)) /\ truthy(ColumnOf(k).minimum) /\ truthy(ColumnOf(k).maximum)

-----------------------------------------------------------------------------
(* Claims about DB.connect *)

\* no call of DB.connect is in progress
Quiet == \A c \in 1..MaxConnects : ~ InProgress(c)

\* C28: under any interleaving of DB.connect calls, overlapping ones and
\* ones with different configs included, at most one native client is ever
\* created, and whenever no call is in progress and DB.client is set,
\* DB.type is the type of the config that client was created from.
C28_ConnectIsSingleton ==
    /\ nativeClients <= 1
    /\ (Quiet /\ DBclient # NoClient) => DBtype = DBclient.type

\* what holds of C28: the same as long as no call began while another
\* awaited its connection
C28_ConnectIsSingletonWithoutOverlap ==
    ~ overlapped =>
        /\ nativeClients <= 1
        /\ (Quiet /\ DBclient # NoClient) => DBtype = DBclient.type

\* two calls with different configs overlapped and both have ended
C28_Overlapped ==
    overlapped /\ Quiet /\ DBclient # NoClient /\ nativeClients = 2

\* a second call came after the first had connected
C28_Sequential ==
    ~ overlapped /\ Quiet /\ DBclient # NoClient
    /\ \E c, d \in 1..MaxConnects : c # d /\ connects[c].pc = "done" /\ connects[d].pc = "done"

-----------------------------------------------------------------------------
(* Claims about DB.getRepository *)

\* two calls with the same target returned the same instance
SameInstance(targets) ==
    \A g, h \in handed : (g.target = h.target /\ g.target \in targets) => g.id = h.id

\* no instance was returned for two targets
OwnInstance == \A g, h \in handed : g.id = h.id => g.target = h.target

\* C29: after any sequence of calls, two calls of DB.getRepository with the
\* same target (the same class or the same table name) return the same
\* Repository instance, and the repository returned for a target is bound to
\* the table of that target, never to the table of a target asked for
\* earlier.
C29_RepositoryPerTarget ==
    /\ SameInstance(Targets)
    /\ OwnInstance
    /\ \A h \in handed : h.table \in {h.target.name} \cup {Registered(ss)[h.target.name].table : ss \in SchemaLists}

\* what holds of C29: the same for the targets that are classes
C29_RepositoryPerClass ==
    /\ SameInstance({t \in Targets : t.kind = "class"})
    /\ OwnInstance
    /\ \A h \in handed : h.table \in {h.target.name} \cup {Registered(ss)[h.target.name].table : ss \in SchemaLists}

\* a table name was asked for twice
C29_SameNameTwice ==
    \E g, h \in handed : g.target = h.target /\ g.target.kind = "string" /\ g.id # h.id

-----------------------------------------------------------------------------
(* Claims about KV.insert *)

\* the call was handed an id by #auto
Numbered(i) == ~ inserts[i].given /\ inserts[i].pc \in {"set", "done"}

\* C30: under any interleaving of KV.insert calls for objects without id the
\* ids handed out by #auto are pairwise distinct, also when two calls read
\* the counter before either commits.
C30_AutoIdsDistinct ==
    \A i, j \in 1..MaxInserts :
        (i # j /\ Numbered(i) /\ Numbered(j)) => inserts[i].id # inserts[j].id

\* what holds of C30: the ids of the calls whose commit succeeded are
\* pairwise distinct
C30_CommittedIdsDistinct ==
    \A i, j \in 1..MaxInserts :
        (i # j /\ Numbered(i) /\ Numbered(j) /\ inserts[i].ok /\ inserts[j].ok) =>
            inserts[i].id # inserts[j].id

\* two calls read the counter before either committed, and both have ended
C30_BothReadFirst ==
    \E i, j \in 1..MaxInserts :
        /\ i # j /\ Numbered(i) /\ Numbered(j)
        /\ inserts[i].auto = inserts[j].auto
        /\ inserts[i].pc = "done" /\ inserts[j].pc = "done"

====
